---------------------------- MODULE Spec2Model ----------------------------
(***************************************************************************)
(* The message clustering engine of athena: ChatMessage.engagement_score  *)
(* (features/telegram/schemas/telegram_schemas.py) and                    *)
(* CommunityMessageProcessor (features/telegram/ai_services/process.py);  *)
(* PlatformType, OrganonNode, OrganonEdge and OrganonModel of             *)
(* core/organon; the diskcache decorator (core/system/diskcache.py) around *)
(* fetch_messages_from_last_x_hours; the /start handler                    *)
(* (features/telegram/functions/start_functions.py).                       *)
(*                                                                         *)
(* Floats are fixed-point integers: 1.0 is One (micro-units).  A missing  *)
(* optional string (None) is the empty string: every use in the modelled  *)
(* code tests it for truthiness only.  Timestamps are seconds counted     *)
(* from a recent origin instead of 1970 (the z-score is shift-invariant). *)
(***************************************************************************)
EXTENDS Integers, Sequences, FiniteSets, TLC

VARIABLES
    msg,                \* the ChatMessage whose engagement_score is read
    score,              \* <<>> or <<its engagement score>>
    entry,              \* the public method the caller invoked
    messages,           \* its `messages` argument
    batch_size,         \* get_model_embeddings' batch_size parameter
    pc,                 \* where the call stands
    important_msgs,     \* analyze_messages / get_model_embeddings: the list being embedded
    importance_scores,  \* analyze_messages: TF-IDF row sums of important_msgs
    tfidf_fit,          \* self.tfidf: the texts the vectorizer was last fitted on
    i,                  \* get_model_embeddings: 0-based offset of the next batch
    text_embeddings,    \* get_model_embeddings: rows received so far
    time_features,      \* get_model_embeddings: timestamps collected so far
    embed_calls,        \* every batch_texts list handed to model.embed_content
    attempts,           \* embed_content invocations made for the latest batch
    provider,           \* the provider's answers to attempts 1..3 on the batch that raised
    scored,             \* analyze_messages' first return value (message, score pairs)
    embeddings,         \* the feature matrix get_model_embeddings returned
    error,              \* "" or the exception that left the call
    labels,             \* cluster_messages: clusterer.labels_
    clusters,           \* cluster_messages: representative_clusters
    pair,               \* two pipeline runs sharing one processor: the locals of each
    call,               \* the operation invoked outside the pipeline, with its arguments
    result,             \* <<>> or <<what that operation returned or raised>>
    frame,              \* the locals of the coroutine that serves `call`
    effects,            \* what it has asked of the outside world so far, in order
    cache,              \* the disk cache: key -> stored value
    origin,             \* history: key -> the arguments of the call that stored it
    config,             \* OrganonModel.config.SEMAPHORE_LIMIT
    semaphore,          \* OrganonModel.semaphore: which Semaphore object it is
    semaphores,         \* the free permits of every Semaphore object created
    tasks               \* the coroutines running on the OrganonModel

vars == << msg, score, entry, messages, batch_size, pc, important_msgs,
           importance_scores, tfidf_fit, i, text_embeddings, time_features,
           embed_calls, attempts, provider, scored, embeddings, error, labels,
           clusters, pair, call, result, frame, effects, cache, origin,
           config, semaphore, semaphores, tasks >>

pipeVars == << entry, messages, batch_size, important_msgs, importance_scores,
               tfidf_fit, i, text_embeddings, time_features, embed_calls,
               attempts, provider, scored, embeddings, error, labels, clusters >>

sysVars == << frame, effects, cache, origin, config, semaphore, semaphores,
              tasks >>

auxVars == << pair, call, result, sysVars >>

-----------------------------------------------------------------------------
(* Bounds of the model *)

MaxReactions == 7       \* reaction_count ranges over 0..MaxReactions
MaxMsgs == 4            \* longest enumerated message batch
MaxBatch == 2           \* largest batch_size of a direct get_model_embeddings call
EmbedDim == 2           \* dimension of the provider's embedding vectors

(* Program constants *)

One == 1000000                              \* 1.0 in micro-units
MIN_SCORE == -5
MAX_SCORE == 3
SHORT_LENGTH == 20
INITIAL_ENGAGEMENT_THRESHOLD == 750000      \* 0.75
MIN_MESSAGE_PERCENTAGE == 10                \* 0.1, in percent
MAX_MESSAGES == 1000
MIN_CLUSTER_SIZE == 2
MIN_SAMPLES == 2
NOISE == -1
DEFAULT_BATCH_SIZE == 256
RETRY_RANGE == 3

Min(a, b) == IF a < b THEN a ELSE b
Max(a, b) == IF a > b THEN a ELSE b

-----------------------------------------------------------------------------
(* ChatMessage.engagement_score *)

\* round(1e6 * np.log1p(n) / 5.0) for n = 20 .. 147; from n = 148 on the
\* quotient exceeds 1.0.
Log1pFifthTable ==
    << 608904, 618208, 627099, 635611, 643775, 651619, 659167, 666441,
       673459, 680239, 686797, 693147, 699302, 705272, 711070, 716704,
       722184, 727517, 732712, 737776, 742714, 747534, 752240, 756838,
       761332, 765728, 770030, 774240, 778364, 782405, 786365, 790249,
       794058, 797797, 801467, 805070, 808610, 812089, 815507, 818869,
       822175, 825427, 828627, 831777, 834877, 837931, 840939, 843902,
       846821, 849699, 852536, 855333, 858092, 860813, 863498, 866147,
       868761, 871342, 873890, 876405, 878890, 881344, 883768, 886163,
       888530, 890869, 893182, 895467, 897727, 899962, 902172, 904358,
       906520, 908659, 910775, 912870, 914942, 916993, 919024, 921034,
       923024, 924995, 926946, 928878, 930792, 932688, 934566, 936426,
       938270, 940096, 941906, 943700, 945478, 947240, 948986, 950718,
       952435, 954137, 955825, 957498, 959158, 960804, 962437, 964056,
       965663, 967256, 968837, 970406, 971962, 973507, 975039, 976560,
       978070, 979568, 981055, 982531, 983996, 985451, 986895, 988328,
       989752, 991165, 992569, 993963, 995347, 996721, 998087, 999442 >>

\* np.log1p(n) / 5.0 for n >= 20; past the table the value is above 1.0
\* (1000790 is its value at 148, the least such n) and only min(.., 1.0)
\* reads it.
Log1pFifth(n) ==
    IF n - 19 <= Len(Log1pFifthTable) THEN Log1pFifthTable[n - 19] ELSE 1000790

\* round(1e6 / (1 + np.exp(-(c - 1) / 2))) for c = 0 .. 30; 1.0 from 31 on.
SigmoidTable ==
    << 377541, 500000, 622459, 731059, 817574, 880797, 924142, 952574,
       970688, 982014, 989013, 993307, 995930, 997527, 998499, 999089,
       999447, 999665, 999797, 999877, 999925, 999955, 999972, 999983,
       999990, 999994, 999996, 999998, 999999, 999999, 999999 >>

reaction_score(m) ==
    IF m.reaction_count + 1 <= Len(SigmoidTable)
    THEN SigmoidTable[m.reaction_count + 1]
    ELSE One

Truthy(s) == s # ""
B2F(b) == IF b THEN One ELSE 0      \* float(bool)

combined_message_length(m) ==
    Len(m.message)
      + (IF Truthy(m.link_preview_title) THEN Len(m.link_preview_title) ELSE 0)
      + (IF Truthy(m.link_preview_description)
         THEN Len(m.link_preview_description) ELSE 0)

length_score(m) ==
    IF combined_message_length(m) < SHORT_LENGTH
    THEN One \div 10
    ELSE Min(Log1pFifth(combined_message_length(m)), One)

\* The weighted sum, times 10 (the weights are tenths).
weighted_score_x10(m) ==
      3 * length_score(m)
    - 50 * B2F(m.is_self)
    - 30 * B2F(m.is_bot)
    + 10 * reaction_score(m)
    + 2 * B2F(m.is_premium)
    + 1 * B2F(m.is_contact)
    + 1 * B2F(m.has_mention)
    + 4 * B2F(m.has_link)
    + 5 * m.media_score * One

normalized_score(m) ==
    (weighted_score_x10(m) - 10 * MIN_SCORE * One) \div (10 * (MAX_SCORE - MIN_SCORE))

clip(x, lo, hi) == IF x < lo THEN lo ELSE IF x > hi THEN hi ELSE x

\* C5, faulty variant: the score without its final np.clip.
engagement_score_unclipped(m) == normalized_score(m)

\* C6, faulty variant: the is_self penalty left out of the weighted sum.
engagement_score_no_self_penalty(m) ==
    clip((weighted_score_x10(m) + 50 * B2F(m.is_self) - 10 * MIN_SCORE * One)
            \div (10 * (MAX_SCORE - MIN_SCORE)), 0, One)

engagement_score(m) == clip(normalized_score(m), 0, One)

-----------------------------------------------------------------------------
(* Message values *)

Pad128 ==
    "0123456789abcdef0123456789abcdef0123456789abcdef0123456789abcdef"
    \o "0123456789abcdef0123456789abcdef0123456789abcdef0123456789abcdef"

ChatMessage(id, text, ts, title, desc, self, bot, premium, contact, mention, link, reactions, media) ==
    [ message_id |-> id, message |-> text, timestamp |-> ts,
      link_preview_title |-> title, link_preview_description |-> desc,
      is_self |-> self, is_bot |-> bot, is_premium |-> premium,
      is_contact |-> contact, has_mention |-> mention, has_link |-> link,
      reaction_count |-> reactions, media_score |-> media ]

NoMessage ==
    ChatMessage(0, "", 0, "", "", FALSE, FALSE, FALSE, FALSE, FALSE, FALSE, 0, 0)

\* Bodies of 0, 19, 20 and 128 characters; previews of 0, 19 and 20: the
\* combined lengths straddle 20 and 148.
ScoreTexts == { "", "deploy failed again", "deploy failed 2night", Pad128 }
ScoreTitles == { "", "runbook for deploys" }
ScoreDescriptions == { "", "how we roll back now" }
MediaScores == 0 .. 4

ScoreMessages ==
    { ChatMessage(1, t, 0, ti, de, s, b, p, c, me, li, r, md) :
        t \in ScoreTexts, ti \in ScoreTitles, de \in ScoreDescriptions,
        s \in BOOLEAN, b \in BOOLEAN, p \in BOOLEAN, c \in BOOLEAN,
        me \in BOOLEAN, li \in BOOLEAN,
        r \in 0 .. MaxReactions, md \in MediaScores }


-----------------------------------------------------------------------------
(* Sequence helpers *)

Range(s) == { s[k] : k \in 1 .. Len(s) }

\* seq[a:b] with 0-based, end-exclusive Python bounds 0 <= a.
Slice(s, a, b) == SubSeq(s, a + 1, Min(b, Len(s)))

RECURSIVE SumSeq(_)
SumSeq(s) == IF s = << >> THEN 0 ELSE s[1] + SumSeq(Tail(s))

RECURSIVE SumPairs(_)
\* Sum of v * c over a set of pairs <<v, c>>.
SumPairs(ps) ==
    IF ps = {} THEN 0
    ELSE LET p == CHOOSE q \in ps : TRUE
         IN  p[1] * p[2] + SumPairs(ps \ {p})

RECURSIVE SumFirst(_)
\* Sum of p[1] over a set of tuples.
SumFirst(ps) ==
    IF ps = {} THEN 0
    ELSE LET p == CHOOSE q \in ps : TRUE
         IN  p[1] + SumFirst(ps \ {p})

\* The multiplicity of every distinct element of s, as pairs <<v, count>>.
Counts(s) ==
    { << v, Cardinality({ k \in 1 .. Len(s) : s[k] = v }) >> : v \in Range(s) }

Lookup(ps, key) == (CHOOSE p \in ps : p[1] = key)[2]

RECURSIVE IsqrtBetween(_, _, _)
IsqrtBetween(x, lo, hi) ==
    IF lo >= hi THEN lo
    ELSE LET mid == (lo + hi + 1) \div 2
         IN  IF mid * mid <= x THEN IsqrtBetween(x, mid, hi)
             ELSE IsqrtBetween(x, lo, mid - 1)

\* floor(sqrt(x)) for 0 <= x < 2^30
Isqrt(x) == IsqrtBetween(x, 0, 32767)

-----------------------------------------------------------------------------
(* sklearn TfidfVectorizer(stop_words="english", ngram_range=(1, 2),      *)
(* min_df=0.0, max_df=1.0).fit_transform(texts).sum(axis=1)                *)

\* The analyzer's tokens: lower-cased words of two or more characters that
\* are no English stop word.
Tokens(text) ==
    CASE text = "deploy failed tonight" -> << "deploy", "failed", "tonight" >>
      [] text = "ok" -> << "ok" >>
      [] text = "the" -> << >>
      [] OTHER -> << >>

\* Unigrams and bigrams of the tokens, with repetitions.
Ngrams(text) ==
    LET t == Tokens(text)
    IN  [ k \in 1 .. Len(t) |-> << t[k] >> ]
          \o (IF Len(t) < 2 THEN << >>
              ELSE [ k \in 1 .. Len(t) - 1 |-> << t[k], t[k + 1] >> ])

\* round(1000 * ln(k)), k = 1 .. 16
LnTable ==
    << 0, 693, 1099, 1386, 1609, 1792, 1946, 2079, 2197, 2303, 2398, 2485,
       2565, 2639, 2708, 2773 >>

\* 1000 * ln(a / b)
LnRatio(a, b) == IF a = b THEN 0 ELSE LnTable[a] - LnTable[b]

\* smooth idf, in thousandths: ln((1 + n) / (1 + df)) + 1
Idf(n, df) == LnRatio(1 + n, 1 + df) + 1000

\* fit(): the vocabulary and the document frequency of each of its terms.
Vocabulary(texts) == UNION { Range(Ngrams(t)) : t \in Range(texts) }

DocFreq(texts) ==
    LET mult == Counts(texts)
    IN  { << term,
             SumFirst({ << q[2], q[1] >> :
                          q \in { r \in mult : term \in Range(Ngrams(r[1])) } }) >> :
          term \in Vocabulary(texts) }

\* transform(): the sum of one document's l2-normalised tf-idf row, in
\* thousandths; 0 for a document without terms.
RowSum(text, df, n) ==
    LET tf == Counts(Ngrams(text))
        w == { << p[2] * Idf(n, Lookup(df, p[1])), p[1] >> : p \in tf }
        total == SumFirst(w)
        squares == SumFirst({ << p[1] * p[1], p[2] >> : p \in w })
    IN  IF w = {} THEN 0 ELSE (1000 * total) \div Isqrt(squares)

TfidfEmptyVocabulary(texts) == Vocabulary(texts) = {}

TfidfRowSums(texts) ==
    LET n == Len(texts)
        df == DocFreq(texts)
        rows == { << t, RowSum(t, df, n) >> : t \in Range(texts) }
    IN  [ k \in 1 .. n |-> Lookup(rows, texts[k]) ]


-----------------------------------------------------------------------------
(* Message batches *)

Kinds == { "engaging", "praise", "chatter", "bot" }

\* One message of each kind: above the threshold (0.816, and 0.794 for the
\* short "praise"); below it (0.688 and 0.316, the bot's text being a stop
\* word); "quiet" has the engaging message's text and stays below the
\* threshold (0.695).
Make(kind, id) ==
    CASE kind = "engaging" ->
           ChatMessage(id, "deploy failed tonight", 0, "Runbook", "",
                       FALSE, FALSE, FALSE, FALSE, FALSE, TRUE, 6, 0)
      [] kind = "quiet" ->
           ChatMessage(id, "deploy failed tonight", 1, "", "",
                       FALSE, FALSE, FALSE, FALSE, FALSE, FALSE, 0, 0)
      [] kind = "praise" ->
           ChatMessage(id, "ok", 3, "", "",
                       FALSE, FALSE, FALSE, FALSE, FALSE, TRUE, 6, 0)
      [] kind = "chatter" ->
           ChatMessage(id, "ok", 1, "", "",
                       FALSE, FALSE, FALSE, TRUE, FALSE, FALSE, 0, 0)
      [] kind = "bot" ->
           ChatMessage(id, "the", 2, "", "status page",
                       FALSE, TRUE, FALSE, FALSE, FALSE, FALSE, 1, 0)

\* Every batch of at most MaxMsgs messages; message_id is the position.
SmallBatches ==
    UNION { { [ p \in 1 .. n |-> Make(ks[p], p) ] : ks \in [ 1 .. n -> Kinds ] } :
            n \in 0 .. MaxMsgs }

RECURSIVE RunsLen(_)
RunsLen(runs) == IF runs = << >> THEN 0 ELSE runs[1][2] + RunsLen(Tail(runs))

RECURSIVE KindAt(_, _)
KindAt(runs, p) ==
    IF p <= runs[1][2] THEN runs[1][1] ELSE KindAt(Tail(runs), p - runs[1][2])

\* The batch made of runs <<kind, count>> of equal messages.
FromRuns(runs) == << >> \o [ p \in 1 .. RunsLen(runs) |-> Make(KindAt(runs, p), p) ]

\* Batches around MAX_MESSAGES, around ten times MAX_MESSAGES and around
\* the default batch_size; one with exactly a tenth above the threshold.
LargeRuns ==
    { << << "quiet", 4 >>, << "engaging", 1 >>, << "quiet", 5 >> >>,
      << << "quiet", 1000 >>, << "engaging", 1 >> >>,
      << << "quiet", 9005 >>, << "engaging", 1000 >> >>,
      << << "engaging", 500 >>, << "quiet", 9510 >> >>,
      << << "engaging", 1 >>, << "quiet", 10018 >> >>,
      << << "engaging", 257 >> >>,
      << << "quiet", 300 >> >>,
      << << "quiet", 200 >>, << "engaging", 57 >> >> }

LargeBatches == { FromRuns(r) : r \in LargeRuns }

-----------------------------------------------------------------------------
(* analyze_messages, step 1: the engagement filter *)

\* The indices of keys in descending key order, equal keys in index order
\* (sorted(..., reverse=True) is stable).
RECURSIVE ByLevel(_, _)
ByLevel(keys, levels) ==
    IF levels = {} THEN << >>
    ELSE LET top == CHOOSE v \in levels : \A w \in levels : w <= v
         IN  SelectSeq([ k \in 1 .. Len(keys) |-> k ], LAMBDA k : keys[k] = top)
               \o ByLevel(keys, levels \ {top})

\* C8, faulty variant: ascending order (reverse=True forgotten).
SortedDescAscending(s, keys) ==
    LET perm == ByLevel(keys, Range(keys))
    IN  [ k \in 1 .. Len(s) |-> s[perm[Len(s) + 1 - k]] ]

SortedDesc(s, keys) ==
    LET perm == ByLevel(keys, Range(keys))
    IN  [ k \in 1 .. Len(s) |-> s[perm[k]] ]

EngagementScores(ms) == << >> \o [ k \in 1 .. Len(ms) |-> engagement_score(ms[k]) ]

AboveThreshold(ms) ==
    LET sc == EngagementScores(ms)
        keep == SelectSeq([ k \in 1 .. Len(ms) |-> k ],
                          LAMBDA k : sc[k] > INITIAL_ENGAGEMENT_THRESHOLD)
    IN  << >> \o [ k \in 1 .. Len(keep) |-> ms[keep[k]] ]

\* C3, faulty variant: the kept count compared with the fraction itself
\* (len(important_msgs) < MIN_MESSAGE_PERCENTAGE).
BelowMinimumAbsolute(kept, total) == 100 * kept < MIN_MESSAGE_PERCENTAGE

\* C19, faulty variant: the fallback taken at exactly the fraction too.
BelowMinimumInclusive(kept, total) == 100 * kept <= total * MIN_MESSAGE_PERCENTAGE

\* len(important_msgs) < len(messages) * MIN_MESSAGE_PERCENTAGE
BelowMinimum(kept, total) == 100 * kept < total * MIN_MESSAGE_PERCENTAGE

\* C4, faulty variant: the smaller of the two counts.
FallbackCountMin(total) ==
    Min((total * MIN_MESSAGE_PERCENTAGE) \div 100, MAX_MESSAGES)

\* C14, faulty variant: the fraction alone, without the MAX_MESSAGES floor.
FallbackCountFraction(total) == (total * MIN_MESSAGE_PERCENTAGE) \div 100

\* max(int(len(messages) * MIN_MESSAGE_PERCENTAGE), MAX_MESSAGES)
FallbackCount(total) ==
    Max((total * MIN_MESSAGE_PERCENTAGE) \div 100, MAX_MESSAGES)

FilterMessages(ms) ==
    LET above == AboveThreshold(ms)
    IN  IF BelowMinimum(Len(above), Len(ms))
        THEN Slice(SortedDesc(ms, EngagementScores(ms)), 0, FallbackCount(Len(ms)))
        ELSE above

\* C15, faulty variant: the empty test left out.
NothingKeptNever(kept) == FALSE

\* if not important_msgs
NothingKept(kept) == kept = << >>

-----------------------------------------------------------------------------
(* get_model_embeddings *)

\* The text sent for one message.
EmbedText(m) ==
    LET with_title == IF Truthy(m.link_preview_title)
                      THEN m.message \o "\n" \o m.link_preview_title
                      ELSE m.message
    IN  IF Truthy(m.link_preview_description)
        THEN with_title \o "\n" \o m.link_preview_description
        ELSE with_title

\* The provider: one vector of EmbedDim numbers per text, in order.
EmbedVec(text) == [ d \in 1 .. EmbedDim |-> 100 * Len(text) + d ]
EmbedResponse(texts) == [ k \in 1 .. Len(texts) |-> EmbedVec(texts[k]) ]

\* What the provider does on one call: answers, raises an Exception (an
\* API error, a timeout), or the task is cancelled (a BaseException).
Answers == { "ok", "error", "cancelled" }

\* C10, faulty variant: a failed call is swallowed and the batch counts as embedded.
EmbedAttemptsSwallow(answers) == [ calls |-> 1, ok |-> TRUE ]

\* try: for _ in range(3): response = embed_content(..); break / except: raise.
\* The first pass through the loop leaves it: by break when the call
\* answers, by the exception when it raises (the handler re-raises, and a
\* BaseException passes it by).
EmbedAttempts(answers) == [ calls |-> 1, ok |-> answers[1] = "ok" ]

\* C9, faulty variant: the batch slice is one message short.
BatchOfShort(ms, at, size) == Slice(ms, at, at + size - 1)

\* C20, faulty variant: every batch after the first starts one message early.
BatchOfOverlapping(ms, at, size) == Slice(ms, Max(at - 1, 0), at + size)

\* messages[i : i + batch_size]
BatchOf(ms, at, size) == Slice(ms, at, at + size)

\* StandardScaler().fit_transform on one column, in thousandths: a column
\* of zero variance is scaled by 1.
StandardScale(col) ==
    LET n == Len(col)
        mult == Counts(col)
        s1 == SumPairs(mult)
        s2 == SumPairs({ << p[1] * p[1], p[2] >> : p \in mult })
        spread == Isqrt(n * s2 - s1 * s1)       \* n * stddev
        z == { << p[1], IF spread = 0 THEN 0
                        ELSE (1000 * (n * p[1] - s1)) \div spread >> : p \in mult }
    IN  [ k \in 1 .. n |-> Lookup(z, col[k]) ]

\* C11, faulty variant: the scores paired with the messages back to front.
ZipScoresReversed(ms, scores) ==
    [ k \in 1 .. Len(ms) |-> << ms[k], scores[Len(ms) + 1 - k] >> ]

\* list(zip(important_msgs, importance_scores))
ZipScores(ms, scores) == [ k \in 1 .. Len(ms) |-> << ms[k], scores[k] >> ]

\* np.hstack([text_embeddings, normalized_time])
Hstack(rows, col) == [ k \in 1 .. Len(rows) |-> rows[k] \o << col[k] >> ]


-----------------------------------------------------------------------------
(* cluster_messages *)

\* What HDBSCAN(min_cluster_size=2, min_samples=2, ...).fit(..).labels_ can
\* be for n finite points: NOISE or a cluster number per point, the clusters
\* numbered 0 .. c-1 and of MIN_CLUSTER_SIZE points or more each.
HdbscanLabellings(n) ==
    { lab \in [ 1 .. n -> NOISE .. (n \div MIN_CLUSTER_SIZE) - 1 ] :
        \A c \in 0 .. (n \div MIN_CLUSTER_SIZE) - 1 :
            LET size == Cardinality({ k \in 1 .. n : lab[k] = c })
            IN  /\ size = 0 \/ size >= MIN_CLUSTER_SIZE
                /\ size > 0 => \A b \in 0 .. c : \E k \in 1 .. n : lab[k] = b }

\* C7, faulty variant: noise kept as a group of its own (the label test dropped).
IsClusteredAll(label) == TRUE

\* if label != -1
IsClustered(label) == label # NOISE

\* C30, faulty variant: the clusters listed by label number.
LabelOrderSorted(lab) ==
    LET present == SelectSeq([ c \in 1 .. Len(lab) |-> c - 1 ],
                             LAMBDA c : /\ IsClustered(c)
                                        /\ \E k \in 1 .. Len(lab) : lab[k] = c)
    IN  present

\* The keys of `clusters` in insertion order: the first occurrences of the
\* labels that pass the noise test.
LabelOrder(lab) ==
    LET first == SelectSeq([ k \in 1 .. Len(lab) |-> k ],
                           LAMBDA k : /\ IsClustered(lab[k])
                                      /\ \A j \in 1 .. k - 1 : lab[j] # lab[k])
    IN  [ c \in 1 .. Len(first) |-> lab[first[c]] ]

\* clusters[label]: the (message, score) pairs of one label, in input order.
Group(pairs, lab, label) ==
    LET at == SelectSeq([ k \in 1 .. Len(lab) |-> k ], LAMBDA k : lab[k] = label)
    IN  [ k \in 1 .. Len(at) |-> pairs[at[k]] ]

\* sorted_msgs[:2]
TopCount == 2

\* One representative cluster: the messages of the TopCount best pairs.
Representatives(group) ==
    LET sorted == SortedDesc(group, [ k \in 1 .. Len(group) |-> group[k][2] ])
        top == Slice(sorted, 0, TopCount)
    IN  [ k \in 1 .. Len(top) |-> top[k][1] ]

RepresentativeClusters(pairs, lab) ==
    LET order == LabelOrder(lab)
    IN  [ c \in 1 .. Len(order) |-> Representatives(Group(pairs, lab, order[c])) ]

-----------------------------------------------------------------------------
(* organon: PlatformType, OrganonNode, OrganonEdge                         *)
(* A Python str that the code converts is a tuple of one-character         *)
(* strings; labels that are only compared are TLA+ strings.                *)

MaxUuids == 2           \* the uuids of nodes are 1 .. MaxUuids
MaxSetNodes == 3        \* most nodes a set is built from

LowerLetters ==
    << "a", "b", "c", "d", "e", "f", "g", "h", "i", "j", "k", "l", "m",
       "n", "o", "p", "q", "r", "s", "t", "u", "v", "w", "x", "y", "z" >>

UpperLetters ==
    << "A", "B", "C", "D", "E", "F", "G", "H", "I", "J", "K", "L", "M",
       "N", "O", "P", "Q", "R", "S", "T", "U", "V", "W", "X", "Y", "Z" >>

\* The character of alphabet `to` at the place c has in alphabet `from`; c
\* itself when it is not in `from`.
MapChar(c, from, to) ==
    IF \E k \in 1 .. Len(from) : from[k] = c
    THEN to[CHOOSE k \in 1 .. Len(from) : from[k] = c]
    ELSE c

UpperChar(c) == MapChar(c, LowerLetters, UpperLetters)
LowerChar(c) == MapChar(c, UpperLetters, LowerLetters)

\* str.upper(), str.lower()
Upper(str) == [ k \in 1 .. Len(str) |-> UpperChar(str[k]) ]
Lower(str) == [ k \in 1 .. Len(str) |-> LowerChar(str[k]) ]

\* The members of PlatformType in definition order; the value of a member
\* is its place (GLOBAL = 1 .. TWITTER = 4).
PlatformNames ==
    << << "G", "L", "O", "B", "A", "L" >>,
       << "T", "E", "L", "E", "G", "R", "A", "M" >>,
       << "D", "I", "S", "C", "O", "R", "D" >>,
       << "T", "W", "I", "T", "T", "E", "R" >> >>

\* What an operation hands back: a value, or the exception it raised.
Returned(v) == [ raised |-> "", value |-> v ]
Raised(exception) == [ raised |-> exception, value |-> << >> ]

\* cls[name]: the member of that name, KeyError without one.
PlatformByName(name) ==
    IF \E k \in 1 .. Len(PlatformNames) : PlatformNames[k] = name
    THEN Returned(CHOOSE k \in 1 .. Len(PlatformNames) : PlatformNames[k] = name)
    ELSE Raised("KeyError")

\* PlatformType.from_string(platform_str); x is [type, value].
from_string(x) ==
    IF x.type # "str"
    THEN Raised("ValueError")
    ELSE LET platform_str == Upper(x.value)
             supported_platforms == { Lower(PlatformNames[k]) :
                                        k \in 1 .. Len(PlatformNames) }
         IN  IF platform_str \notin supported_platforms
             THEN Raised("ValueError")
             ELSE PlatformByName(platform_str)

\* The arguments tried: the four names in lower, mixed and upper case, an
\* unsupported name, the empty string, and the int 123 (by its digits).
FromStringArguments ==
    { [ type |-> "str", value |-> v ] :
        v \in { << "g", "l", "o", "b", "a", "l" >>,
                << "t", "e", "l", "e", "g", "r", "a", "m" >>,
                << "d", "i", "s", "c", "o", "r", "d" >>,
                << "t", "w", "i", "t", "t", "e", "r" >>,
                << "T", "e", "l", "e", "g", "r", "a", "m" >>,
                << "T", "W", "I", "T", "T", "E", "R" >>,
                << "i", "n", "v", "a", "l", "i", "d" >>,
                << >> } }
      \cup { [ type |-> "int", value |-> << "1", "2", "3" >> ] }

\* The subclasses of OrganonNode, by class name.
NodeTypes ==
    { "User", "Room", "Message", "Cluster", "Community", "Entity", "Topic",
      "Preference" }

NodeNames == { "User 1", "User 2" }

\* Strings that are only stored and compared: the u-th uuid, and the
\* ISO text of datetime t (datetime.isoformat()).
Uuid(u) == [ kind |-> "uuid", of |-> u ]
Isoformat(t) == [ kind |-> "iso", of |-> t ]

Uuids == { Uuid(u) : u \in 1 .. MaxUuids }

Node(type, uuid, name) == [ type |-> type, uuid |-> uuid, name |-> name ]

Nodes == { Node(t, u, n) : t \in NodeTypes, u \in Uuids, n \in NodeNames }

\* An object that is no OrganonNode, with a uuid attribute all the same.
Strangers == { Node("object", u, "User 1") : u \in Uuids }

\* isinstance(other, OrganonNode)
IsOrganonNode(other) == other.type \in NodeTypes

\* OrganonNode.__eq__(self, other): no subclass overrides it.
NodeEq(self, other) ==
    IF ~ IsOrganonNode(other) THEN FALSE ELSE self.uuid = other.uuid

\* OrganonNode.__hash__: hash(self.uuid), the uuid standing for its hash.
NodeHash(self) == self.uuid

\* set.add: an element is stored unless one of equal hash that compares
\* equal to it is there already.
SetAdd(stored, x) ==
    IF \E k \in 1 .. Len(stored) :
           NodeHash(stored[k]) = NodeHash(x) /\ NodeEq(stored[k], x)
    THEN stored
    ELSE Append(stored, x)

RECURSIVE SetOf(_, _)
\* {n1, n2, ...}: the elements added from left to right.
SetOf(stored, elements) ==
    IF elements = << >> THEN stored
    ELSE SetOf(SetAdd(stored, elements[1]), Tail(elements))

\* EdgeType
EdgeTypes ==
    { "POSTED_IN", "BELONGS_TO", "RELATED_TO", "MENTIONS", "INCLUDES",
      "PARTICIPATES_IN", "HAS_PREFERENCE", "FOR", "EXPRESSES" }

\* The keys of the EDGE_DEFINITIONS registry.
EDGE_DEFINITIONS ==
    { << "Message", "Room", "POSTED_IN" >>,
      << "Message", "Cluster", "BELONGS_TO" >>,
      << "User", "Room", "BELONGS_TO" >>,
      << "User", "Room", "POSTED_IN" >>,
      << "User", "Topic", "RELATED_TO" >>,
      << "Cluster", "Room", "RELATED_TO" >>,
      << "Cluster", "Topic", "RELATED_TO" >>,
      << "Room", "Topic", "RELATED_TO" >> }

\* label[0] of a class name or a relationship type.
FirstChar(label) ==
    CASE label \in { "User" } -> "U"
      [] label \in { "Room", "RELATED_TO" } -> "R"
      [] label \in { "Message", "MENTIONS" } -> "M"
      [] label \in { "Cluster", "Community" } -> "C"
      [] label \in { "Entity", "EXPRESSES" } -> "E"
      [] label \in { "Topic" } -> "T"
      [] label \in { "Preference", "POSTED_IN", "PARTICIPATES_IN" } -> "P"
      [] label \in { "BELONGS_TO" } -> "B"
      [] label \in { "INCLUDES" } -> "I"
      [] label \in { "HAS_PREFERENCE" } -> "H"
      [] label \in { "FOR" } -> "F"

\* EdgeDefinition.extra_props of a registered key: (name, value) pairs.
ExtraProps(key) ==
    IF key = << "User", "Room", "POSTED_IN" >>
    THEN << << "count", "coalesce(p.count, 0) + 1" >> >>
    ELSE << >>

RECURSIVE Join(_, _)
\* sep.join(strs)
Join(sep, strs) ==
    IF strs = << >> THEN ""
    ELSE IF Len(strs) = 1 THEN strs[1]
    ELSE strs[1] \o sep \o Join(sep, Tail(strs))

\* line.replace(old, new) for a line that holds `old` only as a whole.
ReplaceLine(line, old, new) == IF line = old THEN new ELSE line

\* The ON MATCH SET line of the base query, rel_id interpolated.
OnMatchSet(rel_id) == "ON MATCH SET " \o rel_id \o ".updated_at = $updated_at"

\* The first argument of query.replace: a plain literal, braces and all.
OnMatchSetSearched == "ON MATCH SET {rel_id}.updated_at = $updated_at"

\* generate_edge_query: the identifiers, labels and relationship the
\* query text is made of and its ON MATCH SET line; ValueError for an
\* unregistered key.
generate_edge_query(from_node_label, to_node_label, relationship_type) ==
    LET key == << from_node_label, to_node_label, relationship_type >>
        rel_id == LowerChar(FirstChar(relationship_type))
        extra_props == [ k \in 1 .. Len(ExtraProps(key)) |->
                           rel_id \o "." \o ExtraProps(key)[k][1]
                                  \o " = " \o ExtraProps(key)[k][2] ]
        on_match == IF extra_props # << >>
                    THEN ReplaceLine(OnMatchSet(rel_id), OnMatchSetSearched,
                                     "ON MATCH SET " \o rel_id
                                         \o ".updated_at = $updated_at, "
                                         \o Join(", ", extra_props))
                    ELSE OnMatchSet(rel_id)
    IN  IF key \notin EDGE_DEFINITIONS
        THEN Raised("ValueError")
        ELSE Returned([ from_id |-> LowerChar(FirstChar(from_node_label)),
                        from_label |-> from_node_label,
                        to_id |-> LowerChar(FirstChar(to_node_label)),
                        to_label |-> to_node_label,
                        rel_id |-> rel_id,
                        rel |-> relationship_type,
                        on_match |-> on_match ])

get_edge_query(from_node_label, to_node_label, relationship_type) ==
    generate_edge_query(from_node_label, to_node_label, relationship_type)

\* An optional datetime: << >> is None, <<t>> a datetime (always truthy).
NoTime == << >>
IsSet(optional) == optional # NoTime

\* d[key] = v on a dict kept as a set of <<key, value>> pairs.
DictSet(d, key, v) == { p \in d : p[1] # key } \cup { << key, v >> }
DictKeys(d) == { p[1] : p \in d }

\* C18, faulty variant: one parameter name for both ends.
ParamKeyShared(node_type) == "n_uuid"

\* f"{node_type[0].lower()}_uuid"
ParamKey(node_type) == LowerChar(FirstChar(node_type)) \o "_uuid"

\* An edge: its class's RELATIONSHIP_TYPE and its four datetime fields.
Edge(rel, created, updated, from, to) ==
    [ rel |-> rel, created_at |-> created, updated_at |-> updated,
      valid_from |-> from, valid_to |-> to ]

\* OrganonEdge.connect(self, source_node, target_node): (query, params).
connect(self, source_node, target_node) ==
    LET source_type == source_node.type
        target_type == target_node.type
        key == << source_type, target_type, self.rel >>
    IN  IF key \notin EDGE_DEFINITIONS
        THEN Raised("ValueError")
        ELSE LET query == get_edge_query(source_type, target_type, self.rel)
                 p1 == DictSet({}, ParamKey(source_type), source_node.uuid)
                 p2 == DictSet(p1, ParamKey(target_type), target_node.uuid)
                 p3 == DictSet(p2, "created_at", Isoformat(self.created_at))
                 p4 == DictSet(p3, "updated_at", Isoformat(self.updated_at))
                 p5 == IF IsSet(self.valid_from)
                       THEN DictSet(p4, "valid_from", Isoformat(self.valid_from[1]))
                       ELSE p4
                 p6 == IF IsSet(self.valid_to)
                       THEN DictSet(p5, "valid_to", Isoformat(self.valid_to[1]))
                       ELSE p5
             IN  IF query.raised # "" THEN query
                 ELSE Returned([ query |-> query.value, params |-> p6 ])

\* NodeProperty(name, required)
NodeProperty(name, required) == [ name |-> name, required |-> required ]

COMMON_PROPERTIES ==
    << NodeProperty("uuid", TRUE), NodeProperty("name", TRUE),
       NodeProperty("platform", TRUE), NodeProperty("created_at", TRUE),
       NodeProperty("updated_at", TRUE) >>

\* NODE_DEFINITIONS[node_type]
NODE_DEFINITIONS(node_type) ==
    CASE node_type = "User" ->
           [ node_identifier |-> "u",
             properties |-> COMMON_PROPERTIES \o
               << NodeProperty("user_id", TRUE),
                  NodeProperty("platform_handles", TRUE),
                  NodeProperty("summary", FALSE),
                  NodeProperty("classification", FALSE),
                  NodeProperty("last_summary_update", FALSE) >> ]
      [] node_type = "Room" ->
           [ node_identifier |-> "r",
             properties |-> COMMON_PROPERTIES \o
               << NodeProperty("room_id", TRUE), NodeProperty("room_type", TRUE),
                  NodeProperty("community_id", FALSE),
                  NodeProperty("summary", FALSE) >> ]
      [] node_type = "Message" ->
           [ node_identifier |-> "m",
             properties |-> COMMON_PROPERTIES \o
               << NodeProperty("message_id", TRUE), NodeProperty("room_id", TRUE),
                  NodeProperty("user_id", TRUE), NodeProperty("content", TRUE),
                  NodeProperty("engagement_score", FALSE),
                  NodeProperty("embedding", FALSE) >> ]
      [] node_type = "Cluster" ->
           [ node_identifier |-> "c",
             properties |-> COMMON_PROPERTIES \o
               << NodeProperty("room_id", TRUE), NodeProperty("start_time", TRUE),
                  NodeProperty("end_time", TRUE), NodeProperty("keywords", TRUE),
                  NodeProperty("messages", TRUE),
                  NodeProperty("embeddings", FALSE) >> ]
      [] node_type = "Community" ->
           [ node_identifier |-> "c",
             properties |-> COMMON_PROPERTIES \o
               << NodeProperty("community_id", TRUE),
                  NodeProperty("description", TRUE) >> ]
      [] node_type = "Entity" ->
           [ node_identifier |-> "e",
             properties |-> COMMON_PROPERTIES \o
               << NodeProperty("entity_type", TRUE),
                  NodeProperty("embedding", FALSE) >> ]
      [] node_type = "Topic" ->
           [ node_identifier |-> "t",
             properties |-> COMMON_PROPERTIES \o
               << NodeProperty("description", TRUE),
                  NodeProperty("embedding", FALSE) >> ]
      [] node_type = "Preference" ->
           [ node_identifier |-> "p",
             properties |-> COMMON_PROPERTIES \o
               << NodeProperty("preference_id", TRUE),
                  NodeProperty("preference_type", TRUE),
                  NodeProperty("description", TRUE),
                  NodeProperty("embedding", FALSE) >> ]

\* One line of a Cypher query: its text, or what its text is made of, and
\* the $parameters it refers to.
Line(text, refs) == [ text |-> text, refs |-> refs ]

\* generate_create_node_query(node_type): the lines of the query.
generate_create_node_query(node_type) ==
    LET node_def == NODE_DEFINITIONS(node_type)
        identifier == node_def.node_identifier
        \* f"{prop.name}: ${prop.name}", in either branch of `if prop.required`
        create_props == [ k \in 1 .. Len(node_def.properties) |->
                            node_def.properties[k].name ]
        match_props == [ k \in 1 .. Len(node_def.properties) |->
                            node_def.properties[k].name ]
    IN  << Line(<< "MERGE", identifier, node_type >>, { "uuid" }),
           Line(<< "ON CREATE SET", identifier, create_props >>, Range(create_props)),
           Line(<< "ON MATCH SET", identifier, match_props >>, Range(match_props)),
           Line(<< "RETURN", identifier >>, {}) >>

\* The class variables of the eight node classes.
CREATE_QUERY(node_type) == generate_create_node_query(node_type)
HAS_EMBEDDING(node_type) == node_type \notin { "Community", "Preference" }
EMBEDDING_RETURN_IDENTIFIER(node_type) ==
    CASE node_type = "Community" -> "cm"
      [] OTHER -> LowerChar(FirstChar(node_type))

\* params[key] = v on a dict kept as a function of its keys.
DictPut(d, key, v) == (key :> v) @@ d

\* OrganonNode.get_save_params
BaseSaveParams(self) ==
    DictPut(DictPut(DictPut(DictPut(DictPut(<< >>,
        "uuid", self.uuid), "name", self.name), "platform", self.platform),
        "created_at", Isoformat(self.created_at)),
        "updated_at", Isoformat(self.updated_at))

\* if self.embedding: params["embedding"] = self.embedding
WithEmbedding(params, self) ==
    IF self.embedding # << >> THEN DictPut(params, "embedding", self.embedding)
    ELSE params

\* get_save_params as each node class overrides it.
get_save_params(self) ==
    LET params == BaseSaveParams(self)
    IN  CASE self.type = "User" ->
               WithEmbedding(DictPut(params, "platform_id", self.platform_id), self)
          [] self.type = "Room" ->
               WithEmbedding(DictPut(DictPut(params, "platform_id", self.platform_id),
                                     "description", self.description), self)
          [] self.type = "Message" ->
               WithEmbedding(DictPut(DictPut(params, "platform_id", self.platform_id),
                                     "content", self.content), self)
          [] self.type = "Cluster" ->
               WithEmbedding(DictPut(params, "description", self.description), self)
          [] self.type = "Community" ->
               DictPut(DictPut(params, "platform_id", self.platform_id),
                       "description", self.description)
          [] self.type = "Entity" ->
               WithEmbedding(DictPut(DictPut(params, "entity_type", self.entity_type),
                                     "description", self.description), self)
          [] self.type = "Topic" ->
               WithEmbedding(DictPut(params, "description", self.description), self)
          [] self.type = "Preference" ->
               DictPut(DictPut(params, "preference_type", self.preference_type),
                       "value", self.value)

\* OrganonNode.save(self): (query, params).
save(self) ==
    LET params == get_save_params(self)
        query == CREATE_QUERY(self.type)
        identifier == EMBEDDING_RETURN_IDENTIFIER(self.type)
        replaced == [ k \in 1 .. Len(query) |->
                        ReplaceLine(query[k], Line(<< "RETURN", identifier >>, {}),
                                    Line(<< "WITH", identifier,
                                            "CALL db.create.setNodeVectorProperty",
                                            "RETURN", identifier >>,
                                         { "embedding" })) ]
    IN  Returned([ query |-> IF HAS_EMBEDDING(self.type) /\ self.embedding # << >>
                             THEN replaced ELSE query,
                   params |-> params ])

\* A node of any class with every field a subclass may declare; a class
\* reads its own fields only.  An embedding of << >> is None.
SavedNode(type, uuid, embedding) ==
    [ type |-> type, uuid |-> uuid, name |-> "deploys", platform |-> "telegram",
      created_at |-> 5, updated_at |-> 6, platform_id |-> "42",
      description |-> "how we roll back now", content |-> "deploy failed again",
      entity_type |-> "TECHNOLOGY", preference_type |-> "NOTIFICATION",
      value |-> "enabled", embedding |-> embedding ]

NodeEmbeddings == { << >>, << 250, -500 >> }

\* The operations tried.
SaveCalls ==
    { [ op |-> "save", self |-> SavedNode(t, u, e) ] :
        t \in NodeTypes, u \in Uuids, e \in NodeEmbeddings }

FromStringCalls == { [ op |-> "from_string", arg |-> x ] : x \in FromStringArguments }

EqCalls == { [ op |-> "eq", self |-> a, other |-> b ] : a \in Nodes, b \in Nodes \cup Strangers }

SetNodes == { n \in Nodes : n.type \in { "User", "Room" } }

SetCalls ==
    UNION { { [ op |-> "set", elements |-> e ] : e \in [ 1 .. n -> SetNodes ] } :
            n \in 1 .. MaxSetNodes }

EdgeTimes == { NoTime, << 7 >> }

ConnectCalls ==
    { [ op |-> "connect", edge |-> Edge(r, 5, 6, f, t),
        source |-> Node(st, su, "User 1"), target |-> Node(tt, tu, "User 1") ] :
        r \in EdgeTypes, f \in EdgeTimes, t \in EdgeTimes,
        st \in NodeTypes, su \in Uuids,
        tt \in NodeTypes, tu \in Uuids }

-----------------------------------------------------------------------------
(* Two pipeline runs on one CommunityMessageProcessor: its self.tfidf is   *)
(* the one object both runs fit.                                           *)

MaxPairMsgs == 2        \* longest batch of either of the two runs

\* TfidfVectorizer.transform(texts) after fit(fitted): the row sums under
\* the vocabulary and idf of `fitted`; terms outside that vocabulary count
\* for nothing.
TfidfTransform(fitted, texts) ==
    LET n == Len(fitted)
        df == DocFreq(fitted)
        known == { q[1] : q \in df }
        row(t) ==
            LET tf == { p \in Counts(Ngrams(t)) : p[1] \in known }
                w == { << p[2] * Idf(n, Lookup(df, p[1])), p[1] >> : p \in tf }
                total == SumFirst(w)
                squares == SumFirst({ << p[1] * p[1], p[2] >> : p \in w })
            IN  IF w = {} THEN 0 ELSE (1000 * total) \div Isqrt(squares)
    IN  [ k \in 1 .. Len(texts) |-> row(texts[k]) ]

\* C13, faulty variant: a vectorizer that was fitted before is reused as it is.
VectorizerFittedOnShared(shared, texts) == IF shared = << >> THEN texts ELSE shared

\* self.tfidf.fit_transform(texts): what the vectorizer is fitted on when
\* the rows are computed, `shared` being what it was fitted on before.
VectorizerFittedOn(shared, texts) == texts

\* Two kinds above the threshold with no term in common, and one whose
\* text leaves the vocabulary empty.
PairKinds == { "engaging", "praise", "bot" }

PairBatches ==
    UNION { { [ p \in 1 .. n |-> Make(ks[p], p) ] : ks \in [ 1 .. n -> PairKinds ] } :
            n \in 0 .. MaxPairMsgs }

\* The locals of one run of _transform_messages_into_clusters.
NewRun(ms) ==
    [ pc |-> "called", messages |-> ms, important_msgs |-> << >>,
      importance_scores |-> << >>, fit_read |-> << >>, overlapped |-> FALSE,
      scored |-> << >>, embeddings |-> << >>, labels |-> << >>,
      clusters |-> << >>, error |-> "" ]

MessageTexts(ms) == [ k \in 1 .. Len(ms) |-> ms[k].message ]

\* get_model_embeddings(ms) with a provider that answers: the batches
\* sent one after the other, the rows stacked with the scaled timestamps.
RECURSIVE EmbedFrom(_, _, _)
EmbedFrom(ms, at, size) ==
    IF at >= Len(ms) THEN << >>
    ELSE LET batch == BatchOf(ms, at, size)
         IN  EmbedResponse([ k \in 1 .. Len(batch) |-> EmbedText(batch[k]) ])
               \o EmbedFrom(ms, at + size, size)

ModelEmbeddings(ms) ==
    Hstack(EmbedFrom(ms, 0, DEFAULT_BATCH_SIZE),
           StandardScale([ k \in 1 .. Len(ms) |-> ms[k].timestamp ]))

-----------------------------------------------------------------------------
(* The calls *)

\* No second run and no organon operation.
\* No handler running and an empty disk cache.
HandlerIdle ==
    frame = [ at |-> "" ] /\ effects = << >> /\ cache = << >> /\ origin = << >>

\* No OrganonModel.
ModelIdle == config = 0 /\ semaphore = 0 /\ semaphores = << >> /\ tasks = << >>

SysIdle == HandlerIdle /\ ModelIdle

AuxIdle == pair = << >> /\ call = [ op |-> "" ] /\ result = << >> /\ SysIdle

\* No pipeline call.
PipeIdle ==
    /\ entry = "" /\ messages = << >> /\ batch_size = DEFAULT_BATCH_SIZE
    /\ important_msgs = << >> /\ importance_scores = << >> /\ tfidf_fit = << >>
    /\ i = 0 /\ text_embeddings = << >> /\ time_features = << >>
    /\ embed_calls = << >> /\ attempts = 0 /\ provider = << >>
    /\ scored = << >> /\ embeddings = << >> /\ error = "" /\ labels = << >>
    /\ clusters = << >>

Idle == AuxIdle /\ PipeIdle

\* ApolloSummarizeAgent._transform_messages_into_clusters(messages), or a
\* direct get_model_embeddings(messages, batch_size).
Called(batches, sizes) ==
    /\ AuxIdle
    /\ msg = NoMessage /\ score = << >>
    /\ pc = "called"
    /\ messages \in batches
    /\ \/ entry = "transform" /\ batch_size = DEFAULT_BATCH_SIZE
       \/ entry = "get_model_embeddings" /\ batch_size \in sizes
    /\ important_msgs = << >> /\ importance_scores = << >> /\ tfidf_fit = << >>
    /\ i = 0 /\ text_embeddings = << >> /\ time_features = << >>
    /\ embed_calls = << >> /\ attempts = 0 /\ provider = << >>
    /\ scored = << >> /\ embeddings = << >> /\ error = "" /\ labels = << >>
    /\ clusters = << >>

Init == Called(SmallBatches, 1 .. MaxBatch)

Raise(exception) ==
    /\ pc' = "raised"
    /\ error' = exception

\* analyze_messages up to its call of get_model_embeddings: the filter, then
\* the TF-IDF scores of what it kept.
AnalyzeMessages ==
    /\ pc = "called" /\ entry = "transform"
    /\ \E kept \in { FilterMessages(messages) } :
       \E texts \in { << >> \o [ k \in 1 .. Len(kept) |-> kept[k].message ] } :
           /\ important_msgs' = kept
           /\ IF NothingKept(kept)
              THEN /\ pc' = "analyzed"         \* return [], np.array([])
                   /\ UNCHANGED << tfidf_fit, importance_scores, error >>
              ELSE /\ tfidf_fit' = texts
                   /\ IF TfidfEmptyVocabulary(texts)
                      THEN /\ Raise("ValueError: empty vocabulary")
                           /\ UNCHANGED importance_scores
                      ELSE /\ importance_scores' = TfidfRowSums(texts)
                           /\ pc' = "embedding"
                           /\ UNCHANGED error
    /\ UNCHANGED << msg, score, entry, messages, batch_size, i, text_embeddings,
                    time_features, embed_calls, attempts, provider, scored,
                    embeddings, labels, clusters >>
    /\ UNCHANGED auxVars

\* get_model_embeddings called by itself.
CallGetModelEmbeddings ==
    /\ pc = "called" /\ entry = "get_model_embeddings"
    /\ important_msgs' = messages
    /\ pc' = "embedding"
    /\ UNCHANGED << msg, score, entry, messages, batch_size, importance_scores,
                    tfidf_fit, i, text_embeddings, time_features, embed_calls,
                    attempts, provider, scored, embeddings, error, labels,
                    clusters >>
    /\ UNCHANGED auxVars

\* One pass of the batch loop of get_model_embeddings.
EmbedBatch ==
    /\ pc = "embedding" /\ i < Len(important_msgs)
    /\ \E answers \in [ 1 .. RETRY_RANGE -> Answers ] :
        LET batch == BatchOf(important_msgs, i, batch_size)
            batch_texts == [ k \in 1 .. Len(batch) |-> EmbedText(batch[k]) ]
            tried == EmbedAttempts(answers)
        IN  /\ time_features' =
                  time_features \o [ k \in 1 .. Len(batch) |-> batch[k].timestamp ]
            /\ embed_calls' = embed_calls \o [ k \in 1 .. tried.calls |-> batch_texts ]
            /\ attempts' = tried.calls
            /\ provider' = IF answers[1] = "ok" THEN << >> ELSE answers
            /\ IF tried.ok
               THEN /\ text_embeddings' = text_embeddings \o EmbedResponse(batch_texts)
                    /\ i' = i + batch_size
                    /\ UNCHANGED << pc, error >>
               ELSE /\ Raise(answers[tried.calls])
                    /\ UNCHANGED << text_embeddings, i >>
    /\ UNCHANGED << msg, score, entry, messages, batch_size, important_msgs,
                    importance_scores, tfidf_fit, scored, embeddings, labels,
                    clusters >>
    /\ UNCHANGED auxVars

\* The end of get_model_embeddings and, under analyze_messages, of that call.
EmbedReturn ==
    /\ pc = "embedding" /\ i >= Len(important_msgs)
    /\ IF time_features = << >>
          \/ Len(text_embeddings) # Len(time_features)
       THEN \* StandardScaler refuses an array without samples; np.hstack
            \* refuses blocks of different heights
            /\ Raise("ValueError: array shape")
            /\ UNCHANGED << scored, embeddings >>
       ELSE /\ embeddings' = Hstack(text_embeddings, StandardScale(time_features))
            /\ UNCHANGED error
            /\ IF entry = "transform"
               THEN /\ scored' = ZipScores(important_msgs, importance_scores)
                    /\ pc' = "analyzed"
               ELSE /\ pc' = "returned"
                    /\ UNCHANGED scored
    /\ UNCHANGED << msg, score, entry, messages, batch_size, important_msgs,
                    importance_scores, tfidf_fit, i, text_embeddings,
                    time_features, embed_calls, attempts, provider, labels,
                    clusters >>
    /\ UNCHANGED auxVars

\* cluster_messages(important_messages, embeddings), called with what
\* analyze_messages returned.
ClusterMessages ==
    /\ pc = "analyzed"
    /\ IF scored = << >>
       THEN \* messages, importance_scores = zip(*[]): nothing to unpack
            /\ Raise("ValueError: not enough values to unpack")
            /\ UNCHANGED << labels, clusters >>
       ELSE IF embeddings = << >>
       THEN /\ pc' = "clustered"
            /\ clusters' = << >>
            /\ UNCHANGED << labels, error >>
       ELSE IF Len(embeddings) < MIN_SAMPLES
       THEN \* HDBSCAN: min_samples must be at most the number of samples
            /\ Raise("ValueError: min_samples")
            /\ UNCHANGED << labels, clusters >>
       ELSE \E lab \in HdbscanLabellings(Len(embeddings)) :
            /\ labels' = lab
            /\ clusters' = RepresentativeClusters(scored, lab)
            /\ pc' = "clustered"
            /\ UNCHANGED error
    /\ UNCHANGED << msg, score, entry, messages, batch_size, important_msgs,
                    importance_scores, tfidf_fit, i, text_embeddings,
                    time_features, embed_calls, attempts, provider, scored,
                    embeddings >>
    /\ UNCHANGED auxVars

Next ==
    \/ AnalyzeMessages
    \/ CallGetModelEmbeddings
    \/ EmbedBatch
    \/ EmbedReturn
    \/ ClusterMessages

Spec == Init /\ [][Next]_vars

\* analyze_messages on large batches.
InitLarge == Called(LargeBatches, {})

NextLarge ==
    \/ AnalyzeMessages
    \/ EmbedBatch
    \/ EmbedReturn

SpecLarge == InitLarge /\ [][NextLarge]_vars

\* Reading the engagement_score property of one message.
InitScore ==
    /\ msg \in ScoreMessages
    /\ score = << >>
    /\ pc = "scoring"
    /\ Idle

ReadEngagementScore ==
    /\ pc = "scoring"
    /\ score' = << engagement_score(msg) >>
    /\ pc' = "scored"
    /\ UNCHANGED msg
    /\ UNCHANGED pipeVars
    /\ UNCHANGED auxVars

NextScore == ReadEngagementScore

SpecScore == InitScore /\ [][NextScore]_vars


\* One organon operation on its own.
InitOrganon ==
    /\ msg = NoMessage /\ score = << >>
    /\ pc = "organon"
    /\ PipeIdle
    /\ pair = << >>
    /\ \/ call \in FromStringCalls
       \/ call \in EqCalls
       \/ call \in SetCalls
       \/ call \in ConnectCalls
       \/ call \in SaveCalls
    /\ result = << >>
    /\ SysIdle

Finish(outcome) ==
    /\ result' = << outcome >>
    /\ pc' = "done"
    /\ UNCHANGED << msg, score, pair, call >>
    /\ UNCHANGED pipeVars
    /\ UNCHANGED sysVars

FromString ==
    /\ pc = "organon" /\ call.op = "from_string"
    /\ Finish(from_string(call.arg))

NodeEquals ==
    /\ pc = "organon" /\ call.op = "eq"
    /\ Finish(Returned(NodeEq(call.self, call.other)))

BuildNodeSet ==
    /\ pc = "organon" /\ call.op = "set"
    /\ Finish(Returned(SetOf(<< >>, call.elements)))

Connect ==
    /\ pc = "organon" /\ call.op = "connect"
    /\ Finish(connect(call.edge, call.source, call.target))

Save ==
    /\ pc = "organon" /\ call.op = "save"
    /\ Finish(save(call.self))

NextOrganon ==
    \/ Save
    \/ FromString
    \/ NodeEquals
    \/ BuildNodeSet
    \/ Connect

SpecOrganon == InitOrganon /\ [][NextOrganon]_vars


\* Two runs of _transform_messages_into_clusters on one processor; a run
\* can give way to the other at its awaits only.
InitPair ==
    /\ msg = NoMessage /\ score = << >>
    /\ pc = "pair"
    /\ PipeIdle
    /\ pair \in [ 1 .. 2 -> { NewRun(ms) : ms \in PairBatches } ]
    /\ call = [ op |-> "" ] /\ result = << >>
    /\ SysIdle

PairStep(r, run) ==
    /\ pair' = [ pair EXCEPT ![r] = run ]
    /\ UNCHANGED << msg, score, entry, messages, batch_size, pc, important_msgs,
                    importance_scores, i, text_embeddings, time_features,
                    embed_calls, attempts, provider, scored, embeddings, error,
                    labels, clusters, call, result >>
    /\ UNCHANGED sysVars

\* analyze_messages of run r up to `await self.get_model_embeddings(..)`.
PairAnalyze(r) ==
    /\ pc = "pair" /\ pair[r].pc = "called"
    /\ LET run == pair[r]
           kept == FilterMessages(run.messages)
           texts == MessageTexts(kept)
           fitted == VectorizerFittedOn(tfidf_fit, texts)
           busy == pair[3 - r].pc \in { "embedding", "analyzed" }
       IN  IF NothingKept(kept)
           THEN /\ PairStep(r, [ run EXCEPT !.pc = "analyzed", !.overlapped = busy ])
                /\ UNCHANGED tfidf_fit
           ELSE /\ tfidf_fit' = fitted
                /\ IF TfidfEmptyVocabulary(fitted)
                   THEN PairStep(r, [ run EXCEPT !.pc = "raised",
                                                 !.important_msgs = kept,
                                                 !.fit_read = fitted,
                                                 !.overlapped = busy,
                                                 !.error = "ValueError: empty vocabulary" ])
                   ELSE PairStep(r, [ run EXCEPT !.pc = "embedding",
                                                 !.important_msgs = kept,
                                                 !.fit_read = fitted,
                                                 !.overlapped = busy,
                                                 !.importance_scores =
                                                     TfidfTransform(fitted, texts) ])

\* get_model_embeddings of run r and the return of analyze_messages.
PairEmbed(r) ==
    /\ pc = "pair" /\ pair[r].pc = "embedding"
    /\ LET run == pair[r]
       IN  PairStep(r, [ run EXCEPT !.pc = "analyzed",
                                    !.embeddings = ModelEmbeddings(run.important_msgs),
                                    !.scored = ZipScores(run.important_msgs,
                                                         run.importance_scores) ])
    /\ UNCHANGED tfidf_fit

\* cluster_messages of run r.
PairCluster(r) ==
    /\ pc = "pair" /\ pair[r].pc = "analyzed"
    /\ LET run == pair[r]
       IN  IF run.scored = << >>
           THEN PairStep(r, [ run EXCEPT !.pc = "raised",
                                         !.error = "ValueError: not enough values to unpack" ])
           ELSE IF Len(run.embeddings) < MIN_SAMPLES
           THEN PairStep(r, [ run EXCEPT !.pc = "raised",
                                         !.error = "ValueError: min_samples" ])
           ELSE \E lab \in HdbscanLabellings(Len(run.embeddings)) :
                    PairStep(r, [ run EXCEPT !.pc = "clustered",
                                             !.labels = lab,
                                             !.clusters =
                                                 RepresentativeClusters(run.scored, lab) ])
    /\ UNCHANGED tfidf_fit

NextPair ==
    \E r \in 1 .. 2 :
        \/ PairAnalyze(r)
        \/ PairEmbed(r)
        \/ PairCluster(r)

SpecPair == InitPair /\ [][NextPair]_vars


-----------------------------------------------------------------------------
(* Properties *)

\* The provider refused the first call for the batch at offset i.
ProviderFailed == provider # << >>

\* C1: when the embedding call for a batch fails it is retried, up to 3
\* attempts in all; the error reaches the caller only after all 3 attempts
\* for that batch have failed.
C1_ErrorOnlyAfterThreeAttempts ==
    (pc = "raised" /\ ProviderFailed /\ provider[1] = "error")
        => /\ attempts = RETRY_RANGE
           /\ \A k \in 1 .. RETRY_RANGE : provider[k] # "ok"

\* C2: cluster_messages called with what analyze_messages returns for an
\* empty batch returns an empty list of clusters and raises nothing.
C2_EmptyInputClustersToEmpty ==
    (entry = "transform" /\ messages = << >> /\ pc \in { "clustered", "raised" })
        => (pc = "clustered" /\ clusters = << >> /\ error = "")

\* The filter of analyze_messages has run and no embedding was requested yet.
Filtered == entry = "transform" /\ pc # "called" /\ attempts = 0

\* Fewer than 10% of the batch are above the engagement threshold.
FewAbove(ms) == 10 * Len(AboveThreshold(ms)) < Len(ms)

\* C3 as stated: for a non-empty batch with fewer than 10% of its messages
\* above the threshold the filter keeps at least
\* min(len(batch), max(0.1 * len(batch), 1000)) messages (both sides times 10).
C3_KeepsAtLeastTenthOrCap ==
    (Filtered /\ messages # << >> /\ FewAbove(messages))
        => 10 * Len(important_msgs)
              >= Min(10 * Len(messages), Max(Len(messages), 10 * MAX_MESSAGES))

\* C3 amended: ... keeps at least
\* min(len(batch), max(floor(0.1 * len(batch)), 1000)) messages.
C3_KeepsAtLeastFloorTenthOrCap ==
    (Filtered /\ messages # << >> /\ FewAbove(messages))
        => Len(important_msgs)
              >= Min(Len(messages), Max(Len(messages) \div 10, MAX_MESSAGES))

C3_Witness ==
    /\ Filtered /\ FewAbove(messages)
    /\ Len(messages) > 10 * MAX_MESSAGES
    /\ Len(messages) % 10 # 0
    /\ Len(important_msgs) = Len(messages) \div 10

\* The engagement scores of the messages of ms whose membership of the
\* message set `chosen` is `inside`.
ScoresOf(ms, chosen, inside) ==
    { engagement_score(ms[k]) : k \in { j \in 1 .. Len(ms) : (ms[j] \in chosen) = inside } }

TopByEngagement(ms, out) ==
    /\ Range(out) \subseteq Range(ms)
    /\ Cardinality(Range(out)) = Len(out)
    /\ \A x \in ScoresOf(ms, Range(out), FALSE) :
           \A y \in ScoresOf(ms, Range(out), TRUE) : x <= y

\* C4: when fewer than min_fraction of the batch are above the threshold,
\* the filter's output is the N highest-engagement messages of the whole
\* batch (all of it if it is shorter), N being the larger of
\* int(total * min_fraction) and max_cap: nothing left out scores strictly
\* higher than anything kept.
C4_FallbackTakesTopMaxCount ==
    (Filtered /\ FewAbove(messages))
        => /\ Len(important_msgs)
                = Min(Len(messages), Max(Len(messages) \div 10, MAX_MESSAGES))
           /\ TopByEngagement(messages, important_msgs)

C4_Witness ==
    /\ Filtered /\ FewAbove(messages)
    /\ AboveThreshold(messages) # << >>
    /\ Len(important_msgs) = MAX_MESSAGES
    /\ Len(messages) > MAX_MESSAGES
    /\ Len(messages) \div 10 < MAX_MESSAGES

\* C5: the engagement score of every message lies in [0.0, 1.0].
C5_ScoreInUnitInterval ==
    pc = "scored" => (0 <= score[1] /\ score[1] <= One)

C5_Witness ==
    pc = "scored" /\ normalized_score(msg) > One /\ score[1] = One

\* C6: of two messages that differ in is_self only, the one with
\* is_self = True has the strictly lower engagement score.
C6_SelfScoresStrictlyLower ==
    pc = "scored" =>
        LET other == engagement_score([ msg EXCEPT !.is_self = ~ msg.is_self ])
        IN  IF msg.is_self THEN score[1] < other ELSE other < score[1]

\* Both messages are bots and the self-authored one is clipped to 0.0.
C6_Witness ==
    /\ pc = "scored" /\ msg.is_self /\ msg.is_bot
    /\ normalized_score(msg) < 0 /\ score[1] = 0


\* What cluster_messages was given, by message.
IndexOf(m) == CHOOSE k \in 1 .. Len(scored) : scored[k][1] = m
LexicalScore(m) == scored[IndexOf(m)][2]
LabelOf(m) == labels[IndexOf(m)]
GroupOf(label) == { scored[k][1] : k \in { j \in 1 .. Len(labels) : labels[j] = label } }

\* C7: no message labelled noise (-1) is in a cluster cluster_messages
\* returns, and noise makes no cluster of its own: there are as many
\* clusters as distinct labels other than -1.
C7_NoiseNeverClustered ==
    pc = "clustered" =>
        /\ \A c \in 1 .. Len(clusters) : Range(clusters[c]) \cap GroupOf(-1) = {}
        /\ Len(clusters) = Cardinality(Range(labels) \ { -1 })

C7_Witness ==
    /\ pc = "clustered"
    /\ clusters # << >>
    /\ GroupOf(-1) # {}

\* C8: a returned cluster holds at most 2 messages, those of its label's
\* group with the highest lexical scores, the higher one first.
C8_TopTwoByLexicalScore ==
    pc = "clustered" =>
        \A c \in 1 .. Len(clusters) :
            LET rep == clusters[c]
                group == GroupOf(LabelOf(rep[1]))
            IN  /\ Len(rep) <= 2
                /\ Len(rep) = Min(2, Cardinality(group))
                /\ Range(rep) \subseteq group
                /\ Cardinality(Range(rep)) = Len(rep)
                /\ \A m \in group \ Range(rep) : \A r \in Range(rep) :
                       LexicalScore(m) <= LexicalScore(r)
                /\ Len(rep) = 2 => LexicalScore(rep[1]) >= LexicalScore(rep[2])

C8_Witness ==
    /\ pc = "clustered"
    /\ \E c \in 1 .. Len(clusters) :
           /\ Len(clusters[c]) = 2
           /\ Cardinality(GroupOf(LabelOf(clusters[c][1]))) >= 3
           /\ LexicalScore(clusters[c][1]) > LexicalScore(clusters[c][2])

\* get_model_embeddings returned one row per message, in input order: the
\* provider's vector for the message's text, then its scaled timestamp.
RowPerMessage ==
    /\ pc = "returned"
    /\ Len(embeddings) = Len(messages)
    /\ \A k \in 1 .. Len(messages) :
           /\ Len(embeddings[k]) = EmbedDim + 1
           /\ SubSeq(embeddings[k], 1, EmbedDim) = EmbedVec(EmbedText(messages[k]))
           /\ embeddings[k][EmbedDim + 1] =
                  StandardScale([ j \in 1 .. Len(messages) |-> messages[j].timestamp ])[k]

\* analyze_messages returned as many feature rows as scored messages.
RowPerScoredMessage ==
    (entry = "transform" /\ pc \in { "analyzed", "clustered" })
        => Len(embeddings) = Len(scored)

EmbeddingCallOver ==
    entry = "get_model_embeddings" /\ pc \in { "returned", "raised" }

\* C9 as stated: with a provider that answers every call,
\* get_model_embeddings returns one row of d + 1 columns per input message,
\* in input order, for any message count and any batch_size >= 1; and
\* analyze_messages returns as many feature rows as scored messages.
C9_RowPerMessageAnyCount ==
    /\ (EmbeddingCallOver /\ ~ ProviderFailed) => RowPerMessage
    /\ RowPerScoredMessage

\* C9 amended: ... for any message count of 1 or more ...
C9_RowPerMessageNonEmpty ==
    /\ (EmbeddingCallOver /\ ~ ProviderFailed /\ messages # << >>) => RowPerMessage
    /\ RowPerScoredMessage

C9_Witness ==
    /\ entry = "get_model_embeddings" /\ pc = "returned"
    /\ Len(messages) > batch_size
    /\ Len(messages) % batch_size # 0

\* C10: an embedding call that ends in an error (failure, timeout or
\* cancellation) fails analyze_messages as a whole with that error: no
\* scored messages and no feature matrix are returned, whatever was
\* embedded before.
C10_EmbeddingErrorFailsAnalyze ==
    ProviderFailed =>
        /\ pc = "raised"
        /\ error = provider[1]
        /\ scored = << >>
        /\ embeddings = << >>

C10_Witness ==
    /\ entry = "transform" /\ pc = "raised"
    /\ provider # << >> /\ provider[1] = "cancelled"
    /\ text_embeddings # << >>


\* The messages that survive the filter, and the text sent for each.
Survivors == FilterMessages(messages)
SurvivorTexts == { EmbedText(m) : m \in Range(Survivors) }
LexicalWeights(ms) == TfidfRowSums([ k \in 1 .. Len(ms) |-> ms[k].message ])

\* C11: analyze_messages filters, then weighs, then embeds: no embedding
\* call is made before the filter and the TF-IDF weighting are done, every
\* text sent to the provider is that of a message the filter kept, and the
\* i-th returned pair is the i-th kept message with its own TF-IDF weight.
C11_FilterThenWeighThenEmbed ==
    entry = "transform" =>
        /\ pc = "called" => embed_calls = << >>
        /\ embed_calls # << >> =>
               /\ important_msgs = Survivors
               /\ importance_scores = LexicalWeights(Survivors)
               /\ tfidf_fit # << >>
        /\ \A c \in 1 .. Len(embed_calls) :
               Range(embed_calls[c]) \subseteq SurvivorTexts
        /\ (pc \in { "analyzed", "clustered" } /\ messages # << >>) =>
               /\ Len(scored) = Len(Survivors)
               /\ \A k \in 1 .. Len(scored) :
                      /\ scored[k][1] = Survivors[k]
                      /\ scored[k][2] = LexicalWeights(Survivors)[k]

\* Two messages of different weights were kept and a third was dropped.
C11_Witness ==
    /\ entry = "transform" /\ pc = "analyzed"
    /\ Len(scored) >= 2 /\ Len(scored) < Len(messages)
    /\ scored[1][2] # scored[2][2]
    /\ embed_calls # << >>


\* What the media term adds to the weighted sum (times 10, like the sum).
MediaTermX10(m) ==
    weighted_score_x10(m) - weighted_score_x10([ m EXCEPT !.media_score = 0 ])

\* C12: the media term of the weighted sum is 0.5 times a media score
\* normalized to the unit range: for every media_score in 0..4 it adds at
\* most 0.5 to the un-normalized score.
C12_MediaTermAtMostHalf ==
    pc = "scored" => (0 <= MediaTermX10(msg) /\ MediaTermX10(msg) <= 5 * One)


\* C14: the filter keeps nothing only when the batch is empty: of every
\* non-empty batch, whatever its engagement scores, a message survives.
C14_EmptyOnlyIfInputEmpty ==
    Filtered => (important_msgs = << >> <=> messages = << >>)

\* No message of a non-empty batch is above the threshold and all are kept.
C14_Witness ==
    /\ Filtered /\ messages # << >>
    /\ AboveThreshold(messages) = << >>
    /\ Len(important_msgs) = Len(messages)

\* C15: analyze_messages on an empty batch returns an empty list of scored
\* messages and an empty feature matrix; it raises nothing, leaves the
\* TF-IDF vectorizer unfitted and makes no embedding call.
C15_EmptyBatchReturnsEmpty ==
    [][ (pc = "called" /\ entry = "transform" /\ messages = << >>)
          => /\ pc' = "analyzed" /\ error' = ""
             /\ scored' = << >> /\ embeddings' = << >>
             /\ tfidf_fit' = << >> /\ embed_calls' = << >> /\ attempts' = 0 ]_vars

C15_Witness ==
    /\ entry = "transform" /\ messages = << >>
    /\ pc = "analyzed" /\ error = "" /\ important_msgs = << >>


\* C19: when the messages above the engagement threshold are at least 10%
\* of the batch, the filter keeps exactly those: every message above the
\* threshold and none at or below it, in their original order.
C19_KeepsExactlyAboveThreshold ==
    (Filtered /\ messages # << >> /\ ~ FewAbove(messages))
        => important_msgs =
              SelectSeq(messages,
                        LAMBDA m : engagement_score(m) > INITIAL_ENGAGEMENT_THRESHOLD)

\* Exactly a tenth of the batch is above the threshold; it is kept alone.
C19_Witness ==
    /\ Filtered /\ messages # << >>
    /\ 10 * Len(AboveThreshold(messages)) = Len(messages)
    /\ Len(important_msgs) < Len(messages)
    /\ \A k \in 1 .. Len(important_msgs) :
           engagement_score(important_msgs[k]) > INITIAL_ENGAGEMENT_THRESHOLD


RECURSIVE Flatten(_)
Flatten(ss) == IF ss = << >> THEN << >> ELSE ss[1] \o Flatten(Tail(ss))

\* The text of every message get_model_embeddings was given, in order.
InputTexts == [ k \in 1 .. Len(important_msgs) |-> EmbedText(important_msgs[k]) ]

\* C20: get_model_embeddings cuts its messages into consecutive batches of
\* at most batch_size that do not overlap and together are the input list;
\* it sends them one at a time in that order, a batch only after the one
\* before it was answered; the i-th embedding row and the i-th timestamp
\* are those of the i-th input message.
C20_BatchesInOrder ==
    LET sent == Flatten(embed_calls)
        calls == Len(embed_calls)
    IN  /\ \A c \in 1 .. calls :
               /\ Len(embed_calls[c]) \in 1 .. batch_size
               /\ c < calls => Len(embed_calls[c]) = batch_size
        /\ Len(sent) <= Len(InputTexts)
        /\ sent = SubSeq(InputTexts, 1, Len(sent))
        /\ pc \in { "returned", "analyzed", "clustered" } => sent = InputTexts
        /\ Len(text_embeddings) =
               IF ProviderFailed THEN Len(sent) - Len(embed_calls[calls]) ELSE Len(sent)
        /\ \A k \in 1 .. Len(text_embeddings) :
               text_embeddings[k] = EmbedVec(InputTexts[k])
        /\ Len(time_features) = Len(sent)
        /\ \A k \in 1 .. Len(time_features) :
               time_features[k] = important_msgs[k].timestamp
        /\ \A k \in 1 .. Len(embeddings) :
               SubSeq(embeddings[k], 1, EmbedDim) = EmbedVec(InputTexts[k])

\* Two batches or more were sent, the last one shorter than batch_size,
\* and the first two messages have different texts and timestamps.
C20_Witness ==
    /\ entry = "get_model_embeddings" /\ pc = "returned"
    /\ batch_size > 1
    /\ Len(embed_calls) >= 2
    /\ Len(embed_calls[Len(embed_calls)]) < batch_size
    /\ InputTexts[1] # InputTexts[2]
    /\ time_features[1] # time_features[2]


\* The platform names of PlatformType, lower-cased.
SupportedNames == { Lower(PlatformNames[k]) : k \in 1 .. Len(PlatformNames) }

\* C16: PlatformType.from_string returns the member whose name matches
\* the argument, whatever its case, for "global", "telegram", "discord" and
\* "twitter"; it raises ValueError for an argument that is no string and
\* for any other name.
C16_FromStringMatchesName ==
    (call.op = "from_string" /\ result # << >>) =>
        IF call.arg.type = "str" /\ Lower(call.arg.value) \in SupportedNames
        THEN /\ result[1].raised = ""
             /\ Lower(PlatformNames[result[1].value]) = Lower(call.arg.value)
        ELSE result[1].raised = "ValueError"

\* C17: two nodes are equal exactly when their uuids and their node types
\* are the same, whatever their other fields; a set built from nodes has
\* one element for every (type, uuid) pair among them.
C17_EqualIffSameUuidAndType ==
    /\ (call.op = "eq" /\ result # << >>) =>
           (result[1].value
              <=> (call.self.uuid = call.other.uuid /\ call.self.type = call.other.type))
    /\ (call.op = "set" /\ result # << >>) =>
           Len(result[1].value)
              = Cardinality({ << n.type, n.uuid >> : n \in Range(call.elements) })

\* params[key] is v.
HasEntry(params, key, v) == << key, v >> \in params

\* C18: connect raises ValueError and yields no query when (source type,
\* target type, relationship type) is not registered in EDGE_DEFINITIONS;
\* for a registered triple it returns a query and parameters holding the
\* source uuid and the target uuid under two different keys, created_at,
\* updated_at, and valid_from / valid_to exactly when the edge has them.
C18_ConnectChecksRegistry ==
    (call.op = "connect" /\ result # << >>) =>
        LET out == result[1]
            registered == << call.source.type, call.target.type, call.edge.rel >>
                              \in EDGE_DEFINITIONS
        IN  IF ~ registered
            THEN out.raised = "ValueError" /\ out.value = << >>
            ELSE /\ out.raised = ""
                 /\ out.value.query.from_label = call.source.type
                 /\ out.value.query.to_label = call.target.type
                 /\ out.value.query.rel = call.edge.rel
                 /\ LET params == out.value.params
                    IN  /\ \E ks, kt \in DictKeys(params) :
                               /\ ks # kt
                               /\ HasEntry(params, ks, call.source.uuid)
                               /\ HasEntry(params, kt, call.target.uuid)
                        /\ HasEntry(params, "created_at", Isoformat(call.edge.created_at))
                        /\ HasEntry(params, "updated_at", Isoformat(call.edge.updated_at))
                        /\ "valid_from" \in DictKeys(params) <=> IsSet(call.edge.valid_from)
                        /\ "valid_to" \in DictKeys(params) <=> IsSet(call.edge.valid_to)
                        /\ Cardinality(DictKeys(params)) = Cardinality(params)

\* A registered edge with a validity period between nodes of different uuids.
C18_Witness ==
    /\ call.op = "connect" /\ result # << >>
    /\ result[1].raised = ""
    /\ call.source.uuid # call.target.uuid
    /\ IsSet(call.edge.valid_from) /\ ~ IsSet(call.edge.valid_to)
    /\ Cardinality(result[1].value.params) = 5


\* What analyze_messages returns for batch ms when it runs alone on a
\* processor of its own.
AloneScored(ms) ==
    LET kept == FilterMessages(ms)
    IN  IF kept = << >> THEN << >>
        ELSE ZipScores(kept, TfidfRowSums(MessageTexts(kept)))

AloneEmbeddings(ms) ==
    LET kept == FilterMessages(ms)
    IN  IF kept = << >> THEN << >> ELSE ModelEmbeddings(kept)

AloneRaises(ms) ==
    LET kept == FilterMessages(ms)
    IN  kept # << >> /\ TfidfEmptyVocabulary(MessageTexts(kept))

\* C13: two runs on one processor, interleaved in any way, do not
\* interfere: each returns what it returns when it runs alone (the same
\* scored messages and feature matrix, the clusters of its own scored
\* messages, the same error), and no run computes its weights from a
\* vocabulary fitted on the other run's texts.
C13_RunsDoNotInterfere ==
    pc = "pair" =>
        \A r \in 1 .. 2 :
            LET run == pair[r]
                own == MessageTexts(FilterMessages(run.messages))
            IN  /\ run.fit_read \in { << >>, own }
                /\ run.pc \in { "analyzed", "clustered" } =>
                       /\ ~ AloneRaises(run.messages)
                       /\ run.scored = AloneScored(run.messages)
                       /\ run.embeddings = AloneEmbeddings(run.messages)
                /\ (run.pc = "raised" /\ run.scored = << >> /\ run.fit_read # << >>) =>
                       AloneRaises(run.messages)
                /\ run.pc = "clustered" =>
                       /\ run.labels \in HdbscanLabellings(Len(AloneEmbeddings(run.messages)))
                       /\ run.clusters =
                              RepresentativeClusters(AloneScored(run.messages), run.labels)

\* Run 2 fitted the shared vectorizer on other texts while run 1 was between
\* its analysis and its clustering; both runs have finished.
C13_Witness ==
    /\ pc = "pair"
    /\ pair[1].pc = "clustered" /\ pair[2].pc = "clustered"
    /\ pair[2].overlapped
    /\ pair[1].fit_read # pair[2].fit_read
    /\ Vocabulary(pair[1].fit_read) \cap Vocabulary(pair[2].fit_read) = {}
    /\ tfidf_fit = pair[2].fit_read

\* C27: a message with is_self or is_bot set never scores above the initial
\* threshold 0.75, whatever its other fields are, so the threshold step of
\* the filter never keeps it.
C27_SelfOrBotNeverAboveThreshold ==
    (pc = "scored" /\ (msg.is_self \/ msg.is_bot))
        => score[1] <= INITIAL_ENGAGEMENT_THRESHOLD

\* Where a label first occurs in clusterer.labels_.
FirstOccurrence(label) ==
    CHOOSE k \in 1 .. Len(labels) :
        labels[k] = label /\ \A j \in 1 .. k - 1 : labels[j] # label

\* C30: in the output of cluster_messages every cluster is non-empty, the
\* messages of one cluster carry one label and it is not noise, no message
\* is in two clusters, and there is one cluster per distinct non-noise
\* label, the clusters listed in the order their labels first occur.
C30_OneClusterPerLabelInFirstSeenOrder ==
    pc = "clustered" =>
        /\ \A c \in 1 .. Len(clusters) :
               /\ clusters[c] # << >>
               /\ LabelOf(clusters[c][1]) # NOISE
               /\ \A m \in Range(clusters[c]) : LabelOf(m) = LabelOf(clusters[c][1])
        /\ \A c, d \in 1 .. Len(clusters) :
               c # d => Range(clusters[c]) \cap Range(clusters[d]) = {}
        /\ Len(clusters) = Cardinality(Range(labels) \ { NOISE })
        /\ \A c, d \in 1 .. Len(clusters) :
               c < d => FirstOccurrence(LabelOf(clusters[c][1]))
                            < FirstOccurrence(LabelOf(clusters[d][1]))

\* Two clusters, the label that occurs first being the larger number.
C30_Witness ==
    /\ pc = "clustered"
    /\ Len(clusters) = 2
    /\ LabelOf(clusters[1][1]) > LabelOf(clusters[2][1])
    /\ GroupOf(NOISE) = {}

\* C29: for every registered triple the three identifiers of the query
\* generate_edge_query builds (source, target, relationship) are pairwise
\* distinct.
C29_IdentifiersPairwiseDistinct ==
    (call.op = "connect" /\ result # << >> /\ result[1].raised = "") =>
        LET query == result[1].value.query
        IN  /\ query.from_id # query.to_id
            /\ query.from_id # query.rel_id
            /\ query.to_id # query.rel_id

\* C22: for a registered edge definition with extra properties the ON MATCH
\* SET clause of the query sets every extra property after updated_at.
C22_ExtraPropsSetOnMatch ==
    (call.op = "connect" /\ result # << >> /\ result[1].raised = "") =>
        LET query == result[1].value.query
            extra == ExtraProps(<< query.from_label, query.to_label, query.rel >>)
        IN  extra # << >> =>
                query.on_match =
                    "ON MATCH SET p.updated_at = $updated_at, "
                        \o Join(", ", [ k \in 1 .. Len(extra) |->
                                          "p." \o extra[k][1] \o " = " \o extra[k][2] ])

\* The $parameters a query refers to.
QueryParameters(query) == UNION { query[k].refs : k \in 1 .. Len(query) }

\* C28: for a node of any of the eight types, with or without an embedding,
\* every $parameter the query returned by save() refers to is a key of the
\* parameter dict returned with it.
C28_SaveParamsCoverQuery ==
    (call.op = "save" /\ result # << >>) =>
        QueryParameters(result[1].value.query) \subseteq DOMAIN result[1].value.params

-----------------------------------------------------------------------------
(* fetch_messages_from_last_x_hours behind @diskcache                      *)
(* (features/telegram/functions/chat_functions.py, core/system/diskcache.py) *)
(* Datetimes are whole hours.                                              *)

chunk_size == 1000
min_counter == 100

\* datetime.now() of every call of one behaviour.
TimeNow == 1000

\* A pyrogram Message of a chat history: its id, its date, whether it has a
\* text and whether it has a from_user.
TelegramMessage(id, date, text, sender) ==
    [ id |-> id, date |-> date, has_text |-> text, has_sender |-> sender ]

\* One message of a run of a history: "fresh" is just posted, "today" five
\* hours old, "old" two days old; "service" (no text) and "channel" (no
\* from_user) messages are fresh.
TelegramMake(kind, id) ==
    CASE kind = "fresh" -> TelegramMessage(id, TimeNow, TRUE, TRUE)
      [] kind = "service" -> TelegramMessage(id, TimeNow, FALSE, TRUE)
      [] kind = "channel" -> TelegramMessage(id, TimeNow, TRUE, FALSE)
      [] kind = "today" -> TelegramMessage(id, TimeNow - 5, TRUE, TRUE)
      [] kind = "old" -> TelegramMessage(id, TimeNow - 48, TRUE, TRUE)

\* The history of a chat, newest message first, as get_chat_history
\* yields it: runs of <<kind, count>>.
ChatHistory(peer_id) ==
    LET runs == IF peer_id = 1
                THEN << << "fresh", 3 >>, << "service", 1 >>, << "channel", 1 >>,
                        << "today", 110 >>, << "old", 10 >> >>
                ELSE << << "today", 1 >>, << "old", 2 >> >>
    IN  [ p \in 1 .. RunsLen(runs) |->
            TelegramMake(KindAt(runs, p), 1000 * peer_id + RunsLen(runs) - p) ]

PeerIds == { 1, 2 }
HourSpans == { 1, 24 }

\* ChatMessage.extract_chat_message_info: << >> is None (the AttributeError
\* on from_user is caught), <<m>> a ChatMessage.
extract_chat_message_info(message_object) ==
    IF ~ message_object.has_sender THEN << >>
    ELSE << ChatMessage(message_object.id, "ok", message_object.date, "", "",
                        FALSE, FALSE, FALSE, FALSE, FALSE, FALSE, 0, 0) >>

\* C21, faulty variant: the loop never stops at the cutoff.
PastCutoffNever(message, time_hours_ago) == FALSE

\* message.date < time_hours_ago
PastCutoff(message, time_hours_ago) == message.date < time_hours_ago

\* Whether the loop body appends the message.
Appends(message) ==
    message.has_text /\ extract_chat_message_info(message) # << >>

\* `counter` when the loop reaches the k-th message without having stopped.
CounterAt(history, k) == Len(SelectSeq(SubSeq(history, 1, k - 1), Appends))

\* The body of fetch_messages_from_last_x_hours: the loop stops at the
\* first message past the cutoff that it reaches with counter above
\* min_counter; every message before that is appended unless it has no
\* text or cannot be extracted.
fetch_messages_from_last_x_hours(peer_id, hours) ==
    LET message_generator == Slice(ChatHistory(peer_id), 0, chunk_size)
        time_hours_ago == TimeNow - hours
        stops == { k \in 1 .. Len(message_generator) :
                     /\ PastCutoff(message_generator[k], time_hours_ago)
                     /\ CounterAt(message_generator, k) > min_counter }
        last == IF stops = {} THEN Len(message_generator)
                ELSE (CHOOSE k \in stops : \A j \in stops : k <= j) - 1
        taken == SelectSeq(SubSeq(message_generator, 1, last), Appends)
    IN  [ k \in 1 .. Len(taken) |-> extract_chat_message_info(taken[k])[1] ]

\* kwargs.get(name): << >> is None.
KwargsGet(kwargs, name) ==
    IF name \in DictKeys(kwargs)
    THEN << (CHOOSE p \in kwargs : p[1] = name)[2] >>
    ELSE << >>

\* The value a parameter of the wrapped function is bound to.
Argument(c, name, position) ==
    IF KwargsGet(c.kwargs, name) # << >> THEN KwargsGet(c.kwargs, name)[1]
    ELSE c.args[position]

\* str(n) of a peer id.
IntStr(n) == CASE n = 1 -> "1" [] n = 2 -> "2"

\* The wrapper's cache key: module, name and the truthy owner property;
\* cache_params is empty.
CacheKey(c) ==
    LET key_parts == << "src.athena.features.telegram.functions.chat_functions",
                        "fetch_messages_from_last_x_hours" >>
        cache_owner_property == KwargsGet(c.kwargs, "peer_id")
    IN  Join(":", IF cache_owner_property # << >> /\ cache_owner_property[1] # 0
                  THEN Append(key_parts, IntStr(cache_owner_property[1]))
                  ELSE key_parts)

\* The calls: every argument by keyword, or every argument by position.
KeywordCall(peer_id, hours) ==
    [ op |-> "fetch", args |-> << >>,
      kwargs |-> { << "user_client", 7 >>, << "peer_id", peer_id >>,
                   << "hours", hours >> } ]

PositionalCall(peer_id, hours) ==
    [ op |-> "fetch", args |-> << 7, peer_id, hours >>, kwargs |-> {} ]

\* del d[key]
DictDrop(d, key) == [ k \in DOMAIN d \ { key } |-> d[k] ]

\* How many times the wrapped function was invoked in this call.
Invocations == Len(SelectSeq(effects, LAMBDA e : e = "func"))

InitCache ==
    /\ msg = NoMessage /\ score = << >>
    /\ pc = "cache"
    /\ PipeIdle
    /\ AuxIdle

CacheStep ==
    /\ pc = "cache"
    /\ UNCHANGED << msg, score, pc, pair, config, semaphore, semaphores, tasks >>
    /\ UNCHANGED pipeVars

\* wrapper(*args, **kwargs) is called: the key is built.
Invoke ==
    /\ frame.at \in { "", "done" }
    /\ \E peer_id \in PeerIds, hours \in HourSpans :
           \/ call' = KeywordCall(peer_id, hours)
           \/ call' = PositionalCall(peer_id, hours)
    /\ frame' = [ at |-> "get", key |-> CacheKey(call'), hit |-> FALSE ]
    /\ effects' = << >>
    /\ result' = << >>
    /\ UNCHANGED << cache, origin >>
    /\ CacheStep

\* cached_value = disk_cache.get(key), which may raise.
CacheGet ==
    /\ frame.at = "get"
    /\ \/ /\ frame.key \in DOMAIN cache
          /\ result' = << Returned(cache[frame.key]) >>
          /\ frame' = [ frame EXCEPT !.at = "done", !.hit = TRUE ]
       \/ /\ frame.key \notin DOMAIN cache
          /\ frame' = [ frame EXCEPT !.at = "func" ]
          /\ UNCHANGED result
       \/ /\ frame' = [ frame EXCEPT !.at = "except" ]
          /\ UNCHANGED result
    /\ UNCHANGED << call, effects, cache, origin >>
    /\ CacheStep

\* response = await func(*args, **kwargs); disk_cache.set(key, response);
\* return response.  func or set may raise.
CallFunc ==
    /\ frame.at = "func"
    /\ effects' = Append(effects, "func")
    /\ LET peer_id == Argument(call, "peer_id", 2)
           hours == Argument(call, "hours", 3)
           response == fetch_messages_from_last_x_hours(peer_id, hours)
       IN  \/ /\ cache' = DictPut(cache, frame.key, response)
              /\ origin' = DictPut(origin, frame.key, << peer_id, hours >>)
              /\ result' = << Returned(response) >>
              /\ frame' = [ frame EXCEPT !.at = "done" ]
           \/ /\ frame' = [ frame EXCEPT !.at = "except" ]
              /\ UNCHANGED << cache, origin, result >>
    /\ UNCHANGED call
    /\ CacheStep

\* except Exception: return await func(*args, **kwargs)
CacheExcept ==
    /\ frame.at = "except"
    /\ effects' = Append(effects, "func")
    /\ \/ result' = << Returned(fetch_messages_from_last_x_hours(
                                    Argument(call, "peer_id", 2),
                                    Argument(call, "hours", 3))) >>
       \/ result' = << Raised("Exception") >>
    /\ frame' = [ frame EXCEPT !.at = "done" ]
    /\ UNCHANGED << call, cache, origin >>
    /\ CacheStep

\* An entry outlives cache_ttl and is gone.
Expire ==
    /\ frame.at = "done"
    /\ \E key \in DOMAIN cache :
           /\ cache' = DictDrop(cache, key)
           /\ origin' = DictDrop(origin, key)
    /\ UNCHANGED << call, result, frame, effects >>
    /\ CacheStep

NextCache ==
    \/ Invoke
    \/ CacheGet
    \/ CallFunc
    \/ CacheExcept
    \/ Expire

SpecCache == InitCache /\ [][NextCache]_vars

\* The call computed its result itself and returned it.
Computed == frame.at = "done" /\ ~ frame.hit /\ result[1].raised = ""

\* time_now - timedelta(hours=hours) of the call.
CutoffOfCall == TimeNow - Argument(call, "hours", 3)

C23_CachedOnlyForSameArguments ==
    (frame.at = "done" /\ frame.hit) =>
        origin[frame.key] = << Argument(call, "peer_id", 2),
                               Argument(call, "hours", 3) >>

\* C24: a call invokes the wrapped function at most once: not at all when
\* the cache holds a value for the key, once otherwise, also when the
\* function raises and its error reaches the caller.
C24_FunctionInvokedAtMostOnce ==
    frame.at = "done" =>
        /\ Invocations <= 1
        /\ frame.hit => Invocations = 0
        /\ result[1].raised # "" => Invocations = 1

-----------------------------------------------------------------------------
(* OrganonModel (core/organon/organon_model.py): the semaphore that bounds *)
(* the open database sessions.  A coroutine gives way at an await only.    *)

MaxTasks == 3       \* coroutines running on the model at once
MaxLimit == 2       \* largest SEMAPHORE_LIMIT configured
MaxSemaphores == 2  \* Semaphore objects created during one behaviour

\* asyncio.Semaphore(value)
Semaphore(value) == [ value |-> value, waiters |-> << >> ]

\* A coroutine slot: the method it runs, where it stands, and the Semaphore
\* object its `async with self.semaphore` was entered on.
Task(op, at, sem) == [ op |-> op, at |-> at, sem |-> sem ]

\* The coroutines that hold a database session.
Holders == { t \in DOMAIN tasks : tasks[t].at = "session" }

InitModel ==
    /\ msg = NoMessage /\ score = << >>
    /\ pc = "model"
    /\ PipeIdle
    /\ pair = << >> /\ call = [ op |-> "" ] /\ result = << >>
    /\ HandlerIdle
    /\ config \in 1 .. MaxLimit
    /\ semaphores = << Semaphore(config) >>
    /\ semaphore = 1
    /\ tasks = [ t \in 1 .. MaxTasks |-> Task("", "idle", 0) ]

ModelStep ==
    /\ pc = "model"
    /\ UNCHANGED << msg, score, pc, pair, call, result, frame, effects, cache,
                    origin >>
    /\ UNCHANGED pipeVars

\* `async with self.semaphore:` then `async with self.driver.session()`:
\* self.semaphore is read once; a free permit is taken at once, otherwise
\* the coroutine queues on that object.
Enter(t, op) ==
    /\ LET sem == semaphores[semaphore]
       IN  IF sem.value > 0 /\ sem.waiters = << >>
           THEN /\ semaphores' = [ semaphores EXCEPT ![semaphore].value = @ - 1 ]
                /\ tasks' = [ tasks EXCEPT ![t] = Task(op, "session", semaphore) ]
           ELSE /\ semaphores' = [ semaphores EXCEPT
                                     ![semaphore].waiters = Append(@, t) ]
                /\ tasks' = [ tasks EXCEPT ![t] = Task(op, "waiting", semaphore) ]
    /\ UNCHANGED << config, semaphore >>
    /\ ModelStep

\* run_query(query, params)
RunQuery ==
    \E t \in DOMAIN tasks :
        /\ tasks[t].at \in { "idle", "gathered" }
        /\ Enter(t, "run_query")

\* run_queries(queries, params, sequential=True)
RunQueriesSequential ==
    \E t \in DOMAIN tasks :
        /\ tasks[t].at = "idle"
        /\ Enter(t, "run_queries")

\* run_queries(queries, params) with two queries: asyncio.gather schedules
\* one run_query coroutine per query.
RunQueriesGathered ==
    \E t, u \in DOMAIN tasks :
        /\ t < u
        /\ tasks[t].at = "idle" /\ tasks[u].at = "idle"
        /\ tasks' = [ tasks EXCEPT ![t] = Task("run_query", "gathered", 0),
                                   ![u] = Task("run_query", "gathered", 0) ]
        /\ UNCHANGED << config, semaphore, semaphores >>
        /\ ModelStep

\* The first waiter of a Semaphore object gets a permit that was released.
Acquire ==
    \E t \in DOMAIN tasks :
        /\ tasks[t].at = "waiting"
        /\ LET sem == semaphores[tasks[t].sem]
           IN  /\ sem.value > 0
               /\ sem.waiters[1] = t
               /\ semaphores' = [ semaphores EXCEPT
                                    ![tasks[t].sem] = [ value |-> sem.value - 1,
                                                        waiters |-> Tail(sem.waiters) ] ]
        /\ tasks' = [ tasks EXCEPT ![t].at = "session" ]
        /\ UNCHANGED << config, semaphore >>
        /\ ModelStep

\* The queries are done or have raised: the session is closed and the
\* permit goes back to the Semaphore object it was taken from.
Leave ==
    \E t \in DOMAIN tasks :
        /\ tasks[t].at = "session"
        /\ semaphores' = [ semaphores EXCEPT ![tasks[t].sem].value = @ + 1 ]
        /\ tasks' = [ tasks EXCEPT ![t] = Task("", "idle", 0) ]
        /\ UNCHANGED << config, semaphore >>
        /\ ModelStep

\* update_config(SEMAPHORE_LIMIT=limit): no await inside.
UpdateConfig ==
    \E limit \in 1 .. MaxLimit :
        /\ limit # config => Len(semaphores) < MaxSemaphores
        /\ IF limit # config
           THEN /\ semaphores' = Append(semaphores, Semaphore(limit))
                /\ semaphore' = Len(semaphores) + 1
           ELSE UNCHANGED << semaphores, semaphore >>
        /\ config' = limit
        /\ UNCHANGED tasks
        /\ ModelStep

NextModel ==
    \/ RunQuery
    \/ RunQueriesSequential
    \/ RunQueriesGathered
    \/ Acquire
    \/ Leave
    \/ UpdateConfig

SpecModel == InitModel /\ [][NextModel]_vars

\* C25: at every moment the number of coroutines holding a database session
\* is at most the SEMAPHORE_LIMIT currently configured, for any interleaving
\* of run_query, run_queries and update_config.
C25_SessionsWithinConfiguredLimit ==
    pc = "model" => Cardinality(Holders) <= config

-----------------------------------------------------------------------------
(* The /start handler (features/telegram/functions/start_functions.py).    *)
(* message.command is a list of strings, each a tuple of characters.       *)

SummaryPrefix == << "s", "u", "m", "m", "a", "r", "y" >>

\* The deep-link parameters tried: message.command[1], when there is one.
StartParameters ==
    { << "s", "u", "m", "m", "a", "r", "y", "_", "1" >>,
      << "s", "u", "m", "m", "a", "r", "y", "_", "2" >>,
      << "s", "u", "m", "m", "a", "r", "y", "_", "1", "2" >>,
      << "s", "u", "m", "m", "a", "r", "y", "_", "1", "_", "2" >>,
      << "s", "u", "m", "m", "a", "r", "y" >>,
      << "s", "u", "m", "m", "a", "r", "y", "_" >>,
      << "s", "u", "m", "m", "a", "r", "y", "_", "x" >>,
      << "h", "e", "l", "p" >> }

SenderIds == { 1, 2, 12 }

\* str.startswith(prefix)
StartsWith(str, prefix) ==
    Len(str) >= Len(prefix) /\ SubSeq(str, 1, Len(prefix)) = prefix

RECURSIVE Split(_, _)
\* str.split(sep) for a one-character separator.
Split(str, sep) ==
    IF \A k \in 1 .. Len(str) : str[k] # sep THEN << str >>
    ELSE LET at == CHOOSE k \in 1 .. Len(str) :
                       str[k] = sep /\ \A j \in 1 .. k - 1 : str[j] # sep
         IN  << SubSeq(str, 1, at - 1) >> \o Split(SubSeq(str, at + 1, Len(str)), sep)

DigitChars == << "0", "1", "2", "3", "4", "5", "6", "7", "8", "9" >>

DigitValue(c) == (CHOOSE k \in 1 .. Len(DigitChars) : DigitChars[k] = c) - 1

RECURSIVE DecimalValue(_)
DecimalValue(str) ==
    IF str = << >> THEN 0
    ELSE 10 * DecimalValue(SubSeq(str, 1, Len(str) - 1)) + DigitValue(str[Len(str)])

\* int(str) of a string of letters and digits: ValueError unless it is a
\* non-empty string of digits.
int(str) ==
    IF str # << >> /\ \A k \in 1 .. Len(str) : str[k] \in Range(DigitChars)
    THEN Returned(DecimalValue(str))
    ELSE Raised("ValueError")

\* resolve_start_command(message)
resolve_start_command(message) ==
    IF Len(message.command) > 1 /\ StartsWith(message.command[2], SummaryPrefix)
    THEN "SUMMARY" ELSE "ELSE"

\* int(message.command[1].split("_")[1])
requested_user_id(message) ==
    LET parts == Split(message.command[2], "_")
    IN  IF Len(parts) < 2 THEN Raised("IndexError") ELSE int(parts[2])

\* C26, faulty variant: the sender is never compared with the requested id.
IdMismatchIgnored(user_id, requested) == FALSE

\* user_id != requested_user_id
IdMismatch(user_id, requested) == user_id # requested

\* A /start message: its command list and its sender.
StartMessage(command, sender) == [ command |-> command, from_user |-> [ id |-> sender ] ]

StartCalls ==
    { [ op |-> "start", message |-> StartMessage(<< << "s", "t", "a", "r", "t" >> >>, sender) ] :
        sender \in SenderIds }
    \cup
    { [ op |-> "start", message |-> StartMessage(<< << "s", "t", "a", "r", "t" >>, parameter >>, sender) ] :
        parameter \in StartParameters, sender \in SenderIds }

InitStart ==
    /\ msg = NoMessage /\ score = << >>
    /\ pc = "start"
    /\ PipeIdle
    /\ pair = << >> /\ result = << >>
    /\ call \in StartCalls
    /\ frame = [ at |-> "dispatch", user_start_message |-> FALSE ]
    /\ effects = << >> /\ cache = << >> /\ origin = << >>
    /\ ModelIdle

StartStep ==
    /\ pc = "start"
    /\ UNCHANGED << msg, score, pc, pair, call, cache, origin, config, semaphore,
                    semaphores, tasks >>
    /\ UNCHANGED pipeVars

\* The handler asks `what` of the outside world and goes on at `at`.
Proceed(what, at) ==
    /\ effects' = effects \o what
    /\ frame' = [ frame EXCEPT !.at = at ]
    /\ UNCHANGED result
    /\ StartStep

\* The handler ends after `what`, returning or raising `outcome`.
End(what, outcome) ==
    /\ effects' = effects \o what
    /\ frame' = [ frame EXCEPT !.at = "done" ]
    /\ result' = << outcome >>
    /\ StartStep

\* process_start_command: bot_start_response, or into
\* community_summary_response.
ProcessStartCommand ==
    /\ frame.at = "dispatch"
    /\ IF resolve_start_command(call.message) = "SUMMARY"
       THEN Proceed(<< >>, "history")
       ELSE End(<< "reply: welcome" >>, Returned("None"))

\* The newest message of the chat with the bot is read; user_start_message
\* is set when the account owner sent it.
ReadBotChat ==
    /\ frame.at = "history"
    /\ \E found \in BOOLEAN :
           /\ effects' = Append(effects, "get_chat_history: athena_tgbot")
           /\ frame' = [ frame EXCEPT !.at = "validate", !.user_start_message = found ]
           /\ UNCHANGED result
           /\ StartStep

\* The try block up to its first await, and the except clauses.
ValidateRequest ==
    /\ frame.at = "validate"
    /\ LET requested == requested_user_id(call.message)
           user_id == call.message.from_user.id
       IN  IF requested.raised # ""
           THEN End(<< "reply: Invalid request format" >>, Returned("None"))
           ELSE IF IdMismatch(user_id, requested.value)
           THEN End(<< "reply: Unauthorized access attempt logged" >>, Returned("None"))
           ELSE IF ~ frame.user_start_message
           THEN \* None.edit_text
                End(<< >>, Raised("AttributeError"))
           ELSE Proceed(<< "edit_text" >>, "start_response")

\* community_start_response, the sleep, wait_until_fresh_mention_found and
\* resolve_peer_id_for_summary.
FindCommunity ==
    /\ frame.at = "start_response"
    /\ Proceed(<< "community_start_response", "wait_until_fresh_mention_found",
                  "resolve_peer_id_for_summary" >>, "fetch")

\* fetch_messages_from_last_x_hours and the reply for an empty chat.
FetchMessages ==
    /\ frame.at = "fetch"
    /\ \/ End(<< "fetch_messages_from_last_x_hours", "reply: No messages found" >>,
              Returned("None"))
       \/ Proceed(<< "fetch_messages_from_last_x_hours", "community_found_response" >>,
                  "summarize")

\* The summarizer, the follow-up questions and the summary message.
Summarize ==
    /\ frame.at = "summarize"
    /\ End(<< "summarize_community_clusters", "generate_follow_up_questions",
              "community_summary" >>, Returned("summary_response"))

NextStart ==
    \/ ProcessStartCommand
    \/ ReadBotChat
    \/ ValidateRequest
    \/ FindCommunity
    \/ FetchMessages
    \/ Summarize

SpecStart == InitStart /\ [][NextStart]_vars

\* The sender's id is the id the summary_<id> parameter encodes.
SenderIsRequested ==
    /\ requested_user_id(call.message).raised = ""
    /\ requested_user_id(call.message).value = call.message.from_user.id

\* What fetching the chat and summarizing it ask of the outside world.
SummaryWork ==
    { "fetch_messages_from_last_x_hours", "community_found_response",
      "summarize_community_clusters", "generate_follow_up_questions",
      "community_summary", "community_start_response", "edit_text" }

\* C26: community_summary_response fetches the chat's messages and runs the
\* summarizer only when the sender's id equals the id in the summary_<id>
\* parameter; when they differ or the parameter is malformed nothing is
\* fetched, summarized or sent, and the sender gets the unauthorized or the
\* invalid-format reply and nothing else.
C26_SummaryOnlyForRequestedSender ==
    (pc = "start" /\ resolve_start_command(call.message) = "SUMMARY") =>
        /\ Range(effects) \cap SummaryWork # {} => SenderIsRequested
        /\ (frame.at = "done" /\ ~ SenderIsRequested) =>
               \/ effects = << "get_chat_history: athena_tgbot",
                               "reply: Unauthorized access attempt logged" >>
               \/ effects = << "get_chat_history: athena_tgbot",
                               "reply: Invalid request format" >>

\* A summary was sent to the sender it was requested for, whose id has two
\* digits.
C26_Witness ==
    /\ pc = "start" /\ frame.at = "done"
    /\ call.message.from_user.id = 12
    /\ "community_summary" \in Range(effects)

=============================================================================
